---- MODULE Spec2Model ----
(***************************************************************************)
(* A model of the archive maintenance scripts of humanizer-gm:             *)
(*                                                                         *)
(*   electron/archive-server/scripts/cleanup-junk-embeddings.py            *)
(*       the Noise Classifier and the Index Pruner        (SpecPruner)     *)
(*   scripts/backfill-image-embeddings.py                                  *)
(*       the Resumable Embedding Populator                (SpecPopulator)  *)
(*       its selection on a store of any size             (SpecSelection)  *)
(*       the Blob Codec                                   (SpecCodec)      *)
(*   scripts/direct-image-analysis.py                                      *)
(*       the vision Service Probe                         (SpecProbe)      *)
(*       the vision analysis run                          (SpecVision)     *)
(*                                                                         *)
(* The store is one SQLite file reached through Python's sqlite3 module    *)
(* in its default (deferred, implicit BEGIN) mode: the first INSERT or     *)
(* DELETE of a connection opens a transaction, commit() makes the          *)
(* connection's view durable, and a connection that is closed or whose     *)
(* process dies with a transaction open loses that transaction.  Every     *)
(* store is therefore modelled twice: the durable copy and the copy the    *)
(* open connection sees.                                                   *)
(***************************************************************************)
EXTENDS Naturals, Integers, Sequences, FiniteSets, TLC

VARIABLES
    \* ---- cleanup-junk-embeddings.py
    messages,           \* the messages table: id -> [role, has_content, content]
    execute,            \* "--execute" in sys.argv
    store0,             \* the shadow tables as the run found them
    durable,            \* the shadow tables as committed: table -> set of <<rowid, data>>
    working,            \* the shadow tables as the open connection sees them
    in_txn,             \* the connection has an open (implicit) transaction
    ppc,                \* the script's position
    total_before,       \* COUNT(*) of vec_messages_rowids at the start
    counts,             \* the per-pattern match counts printed
    junk_message_ids,   \* the set accumulated over the patterns
    junk_list,          \* list(junk_message_ids)
    rowids_to_delete,   \* the set accumulated over the resolve batches
    rowid_list,         \* list(rowids_to_delete)
    bi,                 \* the batch loops' offset i
    ti,                 \* the delete loop's position in SHADOW_TABLES
    deleted,            \* the per-table "rows deleted" counts printed so far
    report,             \* the totals printed at the end
    died_at             \* where the process was when it died, for the record

prVars == <<messages, execute, store0, durable, working, in_txn, ppc, total_before, counts,
            junk_message_ids, junk_list, rowids_to_delete, rowid_list, bi, ti,
            deleted, report, died_at>>

VARIABLES
    \* ---- backfill-image-embeddings.py
    image_analysis,     \* the image_analysis table: id -> [is_null, text] of description, source
    ide_exists,         \* the table image_description_embeddings exists
    ide_durable,        \* its rows as committed
    ide_seen,           \* its rows as the open connection sees them
    vec_exists,         \* the table vec_image_descriptions exists
    vec_durable,        \* its rows as committed
    vec_seen,           \* its rows as the open connection sees them
    qpc,                \* the script's position, "idle" when no process runs
    run,                \* the runs started so far
    probe,              \* what GET /api/tags answered in this run
    conn_open,          \* the connection is open
    batch_arg,          \* batch_size
    descriptions,       \* the selected candidates
    idx,                \* the loop's i
    embedding,          \* the vector at hand (its length)
    processed,          \* the processed count
    errors,             \* the error count
    npending,           \* the rows the selection would return without its LIMIT
    prev_run            \* how the last run ended, for the record

poVars == <<image_analysis, ide_exists, ide_durable, ide_seen, vec_exists, vec_durable,
            vec_seen, qpc, run, probe, conn_open, batch_arg, descriptions, idx, embedding,
            processed, errors, npending, prev_run>>

VARIABLES
    \* ---- direct-image-analysis.py
    vision_env,         \* os.environ: VISION_MODEL, or unset
    vpc,                \* get_vision_model's position
    vmodel,             \* its variable model
    vtags,              \* what GET /api/tags answered
    vresult             \* how it ended: a model returned, or an exception raised

viVars == <<vision_env, vpc, vmodel, vtags, vresult>>

VARIABLES
    \* ---- direct-image-analysis.py, main
    analysis_rows,      \* the image_analysis table as the vision tool writes it
    wpc,                \* main's position, "idle" when no process runs
    max_images,         \* max_images
    wprobe,             \* what GET /api/tags answered to the call at the start of main
    wmodel,             \* main's variable model
    unanalyzed,         \* the images found without an analysis
    wi,                 \* the loop's i
    analysis,           \* the analysis at hand
    wprocessed,         \* the processed count
    werrors,            \* the error count
    wprev,              \* how the last run ended, for the record
    wfailed             \* for the record: the images whose analysis or save raised at their last attempt

vmVars == <<analysis_rows, wpc, max_images, wprobe, wmodel, unanalyzed, wi, analysis,
            wprocessed, werrors, wprev, wfailed>>

VARIABLES
    \* ---- backfill-image-embeddings.py, the selection on a store of any size
    sel_pc,             \* the position: "args", "limit", "selected"
    sel_batch,          \* batch_size
    sel_pending,        \* the rows of image_analysis the WHERE clause accepts
    sel_limit,          \* limit
    sel_count           \* len(descriptions)

selVars == <<sel_pc, sel_batch, sel_pending, sel_limit, sel_count>>

VARIABLES
    \* ---- backfill-image-embeddings.py, the Blob Codec
    cod_pc,             \* the position: "vector", "encoded", "decoded"
    cod_vector,         \* the list of floats
    cod_blob,           \* the bytes float_list_to_blob returned
    cod_decoded         \* the list read back from the blob

codVars == <<cod_pc, cod_vector, cod_blob, cod_decoded>>

VARIABLES
    \* ---- backfill-image-embeddings.py, run again and again on one store
    rr_ia,              \* the image_analysis table: id -> [is_null, text] of description, source
    rr_answer,          \* what POST /api/embed answers for the description of each row
    rr_batch,           \* batch_size, the same on every command line
    rr_ide,             \* the rows of image_description_embeddings
    rr_pc,              \* the script's position, "idle" between two runs
    rr_descriptions,    \* the selected candidates
    rr_idx,             \* the loop's i
    rr_processed,       \* the processed count
    rr_errors           \* the error count

rrVars == <<rr_ia, rr_answer, rr_batch, rr_ide, rr_pc, rr_descriptions, rr_idx, rr_processed,
            rr_errors>>

VARIABLES
    \* ---- direct-image-analysis.py, the parse of the vision service's response
    par_pc,             \* the position: "text", "parsed"
    par_text,           \* result.get("response", ""): its tokens and its length
    par_model,          \* model
    par_result          \* what lines 154-183 returned, or that they raised

parVars == <<par_pc, par_text, par_model, par_result>>

vars == <<prVars, poVars, viVars, vmVars, selVars, codVars, rrVars, parVars>>

\* What each script leaves alone: the other scripts' stores and variables.
exceptPr == <<poVars, viVars, vmVars, selVars, codVars, rrVars, parVars>>
exceptPo == <<prVars, viVars, vmVars, selVars, codVars, rrVars, parVars>>
exceptVi == <<prVars, poVars, vmVars, selVars, codVars, rrVars, parVars>>
exceptVm == <<prVars, poVars, viVars, selVars, codVars, rrVars, parVars>>
exceptSel == <<prVars, poVars, viVars, vmVars, codVars, rrVars, parVars>>
exceptCod == <<prVars, poVars, viVars, vmVars, selVars, rrVars, parVars>>
exceptRr == <<prVars, poVars, viVars, vmVars, selVars, codVars, parVars>>
exceptPar == <<prVars, poVars, viVars, vmVars, selVars, codVars, rrVars>>

(***************************************************************************)
(* Bounds of the model.                                                    *)
(***************************************************************************)
NMsg == 3       \* messages in the primary store
MaxRow == 3     \* row addresses the index may hold

Min(a, b) == IF a < b THEN a ELSE b

\* Python's s[i:i+n] on a list, i counted from 0.
Slice(s, i, n) == SubSeq(s, i + 1, Min(i + n, Len(s)))

SeqToSet(s) == {s[k] : k \in 1..Len(s)}

\* Every order in which list(a_set) may enumerate the set.
Orderings(S) ==
    {s \in [1..Cardinality(S) -> S] : \A a, b \in 1..Cardinality(S) : s[a] = s[b] => a = b}

RECURSIVE Rep(_, _)
Rep(s, n) == IF n = 0 THEN <<>> ELSE s \o Rep(s, n - 1)

(***************************************************************************)
(* SQLite's LIKE: % matches any run of characters, _ any one character,    *)
(* and letters compare without regard to (ASCII) case.                     *)
(***************************************************************************)

LowerOf ==
    [A |-> "a", B |-> "b", C |-> "c", D |-> "d", E |-> "e", F |-> "f", G |-> "g",
     H |-> "h", I |-> "i", J |-> "j", K |-> "k", L |-> "l", M |-> "m", N |-> "n",
     O |-> "o", P |-> "p", Q |-> "q", R |-> "r", S |-> "s", T |-> "t", U |-> "u",
     V |-> "v", W |-> "w", X |-> "x", Y |-> "y", Z |-> "z"]

Fold(c) == IF c \in DOMAIN LowerOf THEN LowerOf[c] ELSE c

RECURSIVE LikeAt(_, _, _, _)
LikeAt(pat, i, s, j) ==
    IF i > Len(pat) THEN j > Len(s)
    ELSE IF pat[i] = "%" THEN \E k \in j..(Len(s) + 1) : LikeAt(pat, i + 1, s, k)
    ELSE /\ j <= Len(s)
         /\ (pat[i] = "_" \/ Fold(pat[i]) = Fold(s[j]))
         /\ LikeAt(pat, i + 1, s, j + 1)

Like(s, pat) == LikeAt(pat, 1, s, 1)

Pat_ImageDisplay ==
    <<"%","<","<","I","m","a","g","e","D","i","s","p","l","a","y","%">>

Pat_Traceback ==
    <<"%","T","r","a","c","e","b","a","c","k","%">>

Pat_click ==
    <<"c","l","i","c","k","(","%">>

Pat_mclick ==
    <<"m","c","l","i","c","k","(","%">>

Pat_scroll ==
    <<"s","c","r","o","l","l","(","%">>

Pat_search ==
    <<"s","e","a","r","c","h","(","\"","%">>

Pat_query ==
    <<"{","\"","q","u","e","r","y","\"",":","%">>

Pat_type ==
    <<"{","\"","t","y","p","e","\"",":","%">>

Pat_Error ==
    <<"E","r","r","o","r"," ","%">>

Pat_FailedFetch ==
    <<"%","F","a","i","l","e","d"," ","t","o"," ","f","e","t","c","h","%">>

Pat_TimeoutFetch ==
    <<"%","T","i","m","e","o","u","t"," ","f","e","t","c","h","i","n","g","%">>

TxtAnswer ==
    <<"H","e","r","e"," ","i","s"," ","a"," ","l","o","n","g"," ","a","n","d"," ","m","e","a",
     "n","i","n","g","f","u","l"," ","a","n","s","w","e","r",".">>

TxtOk ==
    <<"o","k">>

TxtClick ==
    <<"c","l","i","c","k","(","3",")">>

TxtFetchError ==
    <<"E","r","r","o","r"," ","l","o","a","d","i","n","g"," ","p","a","g","e",":"," ","F","a",
     "i","l","e","d"," ","t","o"," ","f","e","t","c","h"," ","t","h","e"," ","r","e","s","o",
     "u","r","c","e">>

TxtTrace ==
    <<"s","e","e"," ","t","h","e"," ","p","y","t","h","o","n"," ","t","r","a","c","e","b","a",
     "c","k"," ","b","e","l","o","w"," ","f","o","r"," ","t","h","e"," ","d","e","t","a","i",
     "l","s">>

TxtPlain ==
    <<"A"," ","p","l","a","i","n"," ","p","a","r","a","g","r","a","p","h"," ","o","f"," ","t",
     "h","i","r","t","y"," ","o","r"," ","m","o","r","e"," ","c","h","a","r","a","c","t","e",
     "r","s",".">>

TxtErrorHead ==
    <<"E","r","r","o","r"," ">>

TxtFiller ==
    <<"0","1","2","3","4","5","6","7","8","9">>

TxtJson ==
    <<"{","\"","t","y","p","e","\"",":"," ","\"","n","o","t","e","\"",","," ","\"","t","e",
     "x","t","\"",":"," ","\"","l","o","n","g"," ","e","n","o","u","g","h"," ","t","o"," ",
     "i","n","d","e","x","\"","}">>

TxtSearch ==
    <<"s","e","a","r","c","h","(","\"","h","o","w"," ","t","o"," ","s","e","a","s","o","n",
     " ","a"," ","c","a","s","t"," ","i","r","o","n"," ","p","a","n","\"",")">>

TxtScroll ==
    <<"s","c","r","o","l","l","(","2",")"," ","a","n","d"," ","t","h","e","n"," ","r","e","a",
     "d"," ","t","h","e"," ","r","e","s","t"," ","o","f"," ","t","h","e"," ","p","a","g","e">>

TxtImage ==
    <<"<","<","I","m","a","g","e","D","i","s","p","l","a","y","e","d",">",">"," ","h","e","r",
     "e"," ","i","s"," ","t","h","e"," ","p","i","c","t","u","r","e"," ","y","o","u"," ","a",
     "s","k","e","d"," ","f","o","r">>

TxtTimeout ==
    <<"m","c","l","i","c","k","(","[","1",","," ","2","]",")"," ","T","i","m","e","o","u","t",
     " ","f","e","t","c","h","i","n","g"," ","t","w","o"," ","o","f"," ","t","h","e"," ","p",
     "a","g","e","s">>

(***************************************************************************)
(* cleanup-junk-embeddings.py: the store.                                  *)
(***************************************************************************)
SHADOW_TABLES ==
    << "vec_messages_rowids",
       "vec_messages_chunks",
       "vec_messages_vector_chunks00",
       "vec_messages_metadatachunks00",
       "vec_messages_metadatachunks01",
       "vec_messages_metadatachunks02",
       "vec_messages_metadatatext00",
       "vec_messages_metadatatext01",
       "vec_messages_metadatatext02" >>

TableNames == SeqToSet(SHADOW_TABLES)

\* The shadow table whose data column carries the message id.
ID_TABLE == "vec_messages_metadatatext01"

\* Line 91: batch_size = 500
batch_size == 500

MsgIds == 1..NMsg
RowIds == 1..MaxRow

\* A message id that no row of messages has (an embedding of a deleted message).
UnknownMsg == NMsg + 1

Msg(role, text) == [role |-> role, has_content |-> TRUE, content |-> text]
NullMsg(role) == [role |-> role, has_content |-> FALSE, content |-> <<>>]

\* The records message i may hold when the classifier is checked on its own:
\* one that matches no pattern, and ones that match one or several.
SamplePool(i) ==
    CASE i % 3 = 1 -> { Msg("user", TxtAnswer), Msg("user", TxtOk), Msg("tool", TxtClick),
                        Msg("user", TxtSearch), Msg("tool", TxtPlain) }
      [] i % 3 = 2 -> { NullMsg("assistant"), Msg("user", TxtFetchError),
                        Msg("assistant", TxtTrace), Msg("user", TxtScroll),
                        NullMsg("tool") }
      [] OTHER     -> { Msg("Tool", TxtPlain), Msg("user", TxtErrorHead \o Rep(TxtFiller, 20)),
                        Msg("assistant", TxtJson), Msg("assistant", TxtImage),
                        Msg("tool", TxtTimeout) }

\* The records message i may hold when the whole script is checked: one that
\* matches no pattern and one that matches two.
PrunerPool(i) == { NullMsg("assistant"), Msg("tool", TxtOk) }

\* How a row address may sit in the store: in no shadow table, in all nine, or
\* only in the three metadata text tables.
TablesOf(p) ==
    CASE p = "all"  -> TableNames
      [] p = "text" -> { "vec_messages_metadatatext00", "vec_messages_metadatatext01",
                         "vec_messages_metadatatext02" }
      [] OTHER      -> {}

\* What row address r may be.  The messages of the pruner's pool are
\* interchangeable, so the owners are numbered in the order the rows use them:
\* row r is owned by one of the first r messages or by an unknown one.
RowChoices(r) ==
    { [p |-> "none", o |-> 0], [p |-> "text", o |-> 1] } \cup
    { [p |-> "all", o |-> m] : m \in {q \in MsgIds : q <= r} \cup {UnknownMsg} }

\* The data column of row address r in table t, for a row owned by message o.
DataFor(t, o) == IF t = ID_TABLE THEN o ELSE 0

StoreOf(cfg) ==
    [t \in TableNames |->
        { <<r, DataFor(t, cfg[r].o)>> : r \in {q \in RowIds : t \in TablesOf(cfg[q].p)} }]

\* The rowids of a table.
RowidsIn(tbl) == {row[1] : row \in tbl}

(***************************************************************************)
(* The Noise Classifier: the patterns list and the loop over it.           *)
(***************************************************************************)
patterns ==
    << "Tool role messages", "Very short (<30 chars)", "<<ImageDisplayed>> placeholders",
       "Error tracebacks", "click()/mclick() commands", "scroll() commands",
       "search() calls", "JSON object content", "Short error messages",
       "Fetch/timeout errors" >>

\* The WHERE condition of pattern k on one row of messages.  A NULL content
\* makes LENGTH and LIKE NULL, and the row is not selected.
Condition(k, m) ==
    CASE k = 1  -> m.role = "tool"
      [] k = 2  -> m.has_content /\ Len(m.content) < 30
      [] k = 3  -> m.has_content /\ Like(m.content, Pat_ImageDisplay)
      [] k = 4  -> m.has_content /\ Like(m.content, Pat_Traceback)
      [] k = 5  -> m.has_content /\ (Like(m.content, Pat_click) \/ Like(m.content, Pat_mclick))
      [] k = 6  -> m.has_content /\ Like(m.content, Pat_scroll)
      [] k = 7  -> m.has_content /\ Like(m.content, Pat_search)
      [] k = 8  -> m.has_content /\ (Like(m.content, Pat_query) \/ Like(m.content, Pat_type))
      [] k = 9  -> m.has_content /\ Like(m.content, Pat_Error) /\ Len(m.content) < 200
      [] k = 10 -> m.has_content /\ (Like(m.content, Pat_FailedFetch)
                                      \/ Like(m.content, Pat_TimeoutFetch))
      [] OTHER  -> FALSE

\* SELECT id FROM messages WHERE <condition k>
SelectJunk(msgs, k) == {id \in DOMAIN msgs : Condition(k, msgs[id])}

\* for (msg_id,) in matches: junk_message_ids.add(msg_id)
AddMatchesReplace(acc, matches) == matches

AddMatches(acc, matches) == acc \cup matches

\* The loop over patterns from pattern k on: the set and the printed counts.
RECURSIVE ClassifyFrom(_, _, _, _)
ClassifyFrom(msgs, k, acc, cnts) ==
    IF k > Len(patterns) THEN [ids |-> acc, counts |-> cnts]
    ELSE ClassifyFrom(msgs, k + 1, AddMatches(acc, SelectJunk(msgs, k)),
                      Append(cnts, Cardinality(SelectJunk(msgs, k))))

(***************************************************************************)
(* The Index Pruner.                                                       *)
(***************************************************************************)
\* SELECT rowid FROM vec_messages_metadatatext01 WHERE data IN (batch)
SelectRowids(tables, batch) ==
    {row[1] : row \in {q \in tables[ID_TABLE] : q[2] \in SeqToSet(batch)}}

\* Lines 94-102: one batch of the resolve loop, the batch of bs ids at offset
\* i of list: its rowids are added to the set.
ResolveBatchLast(tables, list, i, bs, acc) == SelectRowids(tables, Slice(list, i, bs))

ResolveBatch(tables, list, i, bs, acc) == acc \cup SelectRowids(tables, Slice(list, i, bs))

\* Lines 93-102: the resolve loop from offset i on, for i in range(0, len, bs).
RECURSIVE ResolveFrom(_, _, _, _, _)
ResolveFrom(tables, list, i, bs, acc) ==
    IF i >= Len(list) THEN acc
    ELSE ResolveFrom(tables, list, i + bs, bs, ResolveBatch(tables, list, i, bs, acc))

\* DELETE FROM table WHERE rowid IN (batch)
DeleteRowsNoWhere(tbl, batch) == {}

DeleteRowsByData(tbl, batch) == {row \in tbl : row[2] \notin SeqToSet(batch)}

DeleteRowsFirstOnly(tbl, batch) ==
    {row \in tbl : batch = <<>> \/ row[1] # batch[1]}

DeleteRows(tbl, batch) == {row \in tbl : row[1] \notin SeqToSet(batch)}

\* The committed store after a DELETE of the connection: sqlite3.connect() is
\* called with its default isolation level, so the statement runs inside the
\* connection's transaction and the committed store stays as it was.
DurableAfterDeleteAutocommit(committed, seen) == seen

DurableAfterDelete(committed, seen) == committed

\* if execute and rowids_to_delete:
ShouldDeleteAlways(exec, rowids) == rowids # {}

ShouldDeleteOnExecute(exec, rowids) == exec

ShouldDelete(exec, rowids) == exec /\ rowids # {}

\* for i in range(0, len(rowid_list), batch_size): the offset after offset i
\* of a list of n, or 0 when the loop is over.
NextOffset(i, n) == IF i + batch_size < n THEN i + batch_size ELSE 0

\* The script's own variables before it has run (and after its process died).
PrLocals ==
    [ppc |-> "start", total_before |-> 0, counts |-> <<>>, junk_message_ids |-> {},
     junk_list |-> <<>>, rowids_to_delete |-> {}, rowid_list |-> <<>>, bi |-> 0, ti |-> 1,
     deleted |-> <<>>, report |-> [kind |-> "none", removed |-> 0, remaining |-> 0]]

\* The script starts on messages drawn from pool[i] for message i.
PrStart(pool) ==
    /\ messages \in {f \in [MsgIds -> UNION {pool[i] : i \in MsgIds}] :
                        \A i \in MsgIds : f[i] \in pool[i]}
    /\ execute \in BOOLEAN
    /\ in_txn = FALSE
    /\ ppc = PrLocals.ppc
    /\ total_before = PrLocals.total_before
    /\ counts = PrLocals.counts
    /\ junk_message_ids = PrLocals.junk_message_ids
    /\ junk_list = PrLocals.junk_list
    /\ rowids_to_delete = PrLocals.rowids_to_delete
    /\ rowid_list = PrLocals.rowid_list
    /\ bi = PrLocals.bi
    /\ ti = PrLocals.ti
    /\ deleted = PrLocals.deleted
    /\ report = PrLocals.report
    /\ died_at = [ppc |-> "none", ti |-> 0, dirty |-> FALSE]

\* Any messages of the pruner's pool, any store.
PrInit ==
    /\ PrStart([i \in MsgIds |-> PrunerPool(i)])
    /\ \E cfg \in {f \in [RowIds -> UNION {RowChoices(r) : r \in RowIds}] :
                        \A r \in RowIds : f[r] \in RowChoices(r)} :
          /\ store0 = StoreOf(cfg)
          /\ durable = StoreOf(cfg)
          /\ working = StoreOf(cfg)

\* Any messages of the classifier's pool, the store in which message i owns
\* row address i.
ClInit ==
    /\ PrStart([i \in MsgIds |-> SamplePool(i)])
    /\ LET cfg == [r \in RowIds |-> [p |-> "all", o |-> IF r <= NMsg THEN r ELSE UnknownMsg]] IN
          /\ store0 = StoreOf(cfg)
          /\ durable = StoreOf(cfg)
          /\ working = StoreOf(cfg)

\* Lines 28-34: open the store and count the rowid registry.
PrCount ==
    /\ ppc = "start"
    /\ total_before' = Cardinality(working["vec_messages_rowids"])
    /\ ppc' = "classify"
    /\ UNCHANGED <<exceptPr, died_at, messages, execute, store0, durable, working, in_txn, counts,
                   junk_message_ids, junk_list, rowids_to_delete, rowid_list, bi, ti,
                   deleted, report>>

\* Lines 69-91: the pattern loop, then junk_list = list(junk_message_ids).
PrClassify ==
    /\ ppc = "classify"
    /\ LET res == ClassifyFrom(messages, 1, {}, <<>>) IN
          /\ junk_message_ids' = res.ids
          /\ counts' = res.counts
          /\ junk_list' \in Orderings(res.ids)
    /\ bi' = 0
    /\ ppc' = "resolve"
    /\ UNCHANGED <<exceptPr, died_at, messages, execute, store0, durable, working, in_txn, total_before,
                   rowids_to_delete, rowid_list, ti, deleted, report>>

\* Lines 93-102: one batch of the resolve loop.
PrResolveBatch ==
    /\ ppc = "resolve"
    /\ bi < Len(junk_list)
    /\ rowids_to_delete' = ResolveBatch(working, junk_list, bi, batch_size, rowids_to_delete)
    /\ bi' = bi + batch_size
    /\ UNCHANGED <<exceptPr, died_at, messages, execute, store0, durable, working, in_txn, ppc, total_before,
                   counts, junk_message_ids, junk_list, rowid_list, ti, deleted, report>>

\* Lines 104-110 and 129-133: the resolve loop is over; delete, or preview.
\* junk_list is not read again: the model forgets it here, so that the orders
\* of the two lists do not multiply the states.
PrBranch ==
    /\ ppc = "resolve"
    /\ bi >= Len(junk_list)
    /\ junk_list' = <<>>
    /\ IF ShouldDelete(execute, rowids_to_delete)
       THEN /\ rowid_list' \in Orderings(rowids_to_delete)
            /\ ti' = 1
            /\ bi' = 0
            /\ deleted' = <<0>>
            /\ ppc' = "delete"
            /\ UNCHANGED report
       ELSE /\ report' = [kind |-> "preview",
                          removed |-> Cardinality(rowids_to_delete),
                          remaining |-> total_before - Cardinality(rowids_to_delete)]
            /\ ppc' = "done"
            /\ UNCHANGED <<rowid_list, ti, bi, deleted>>
    /\ UNCHANGED <<exceptPr, died_at, messages, execute, store0, durable, working, in_txn, total_before,
                   counts, junk_message_ids, rowids_to_delete>>

\* Lines 112-119: one DELETE of the delete loop: table ti, the batch at offset
\* bi.  The first DELETE opens the connection's transaction.
PrDeleteBatch ==
    /\ ppc = "delete"
    /\ ti <= Len(SHADOW_TABLES)
    /\ LET t     == SHADOW_TABLES[ti]
           batch == Slice(rowid_list, bi, batch_size)
           after == DeleteRows(working[t], batch)
           gone  == Cardinality(working[t]) - Cardinality(after)
           nxt   == NextOffset(bi, Len(rowid_list))
       IN  /\ working' = [working EXCEPT ![t] = after]
           /\ durable' = DurableAfterDelete(durable, [working EXCEPT ![t] = after])
           /\ in_txn' = TRUE
           /\ bi' = nxt
           /\ IF nxt = 0
              THEN /\ ti' = ti + 1
                   /\ deleted' = IF ti < Len(SHADOW_TABLES)
                                 THEN Append([deleted EXCEPT ![ti] = @ + gone], 0)
                                 ELSE [deleted EXCEPT ![ti] = @ + gone]
              ELSE /\ ti' = ti
                   /\ deleted' = [deleted EXCEPT ![ti] = @ + gone]
    /\ UNCHANGED <<exceptPr, died_at, messages, execute, store0, ppc, total_before, counts,
                   junk_message_ids, junk_list, rowids_to_delete, rowid_list, report>>

\* Line 121: conn.commit()
PrCommit ==
    /\ ppc = "delete"
    /\ ti > Len(SHADOW_TABLES)
    /\ durable' = working
    /\ in_txn' = FALSE
    /\ ppc' = "verify"
    /\ UNCHANGED <<exceptPr, died_at, messages, execute, store0, working, total_before, counts,
                   junk_message_ids, junk_list, rowids_to_delete, rowid_list, bi, ti,
                   deleted, report>>

\* Lines 123-128: count the rowid registry again and print the totals.
PrVerify ==
    /\ ppc = "verify"
    /\ LET total_after == Cardinality(working["vec_messages_rowids"]) IN
          report' = [kind |-> "executed",
                     removed |-> total_before - total_after,
                     remaining |-> total_after]
    /\ ppc' = "done"
    /\ UNCHANGED <<exceptPr, died_at, messages, execute, store0, durable, working, in_txn, total_before,
                   counts, junk_message_ids, junk_list, rowids_to_delete, rowid_list, bi,
                   ti, deleted>>

\* The process dies (a kill, a power loss, an error of the storage layer) before
\* it is done: its memory is gone and SQLite rolls the open transaction back.
PrCrash ==
    /\ ppc \notin {"done", "crashed"}
    /\ working' = durable
    /\ in_txn' = FALSE
    /\ ppc' = "crashed"
    /\ total_before' = PrLocals.total_before
    /\ counts' = PrLocals.counts
    /\ junk_message_ids' = PrLocals.junk_message_ids
    /\ junk_list' = PrLocals.junk_list
    /\ rowids_to_delete' = PrLocals.rowids_to_delete
    /\ rowid_list' = PrLocals.rowid_list
    /\ bi' = PrLocals.bi
    /\ ti' = PrLocals.ti
    /\ deleted' = PrLocals.deleted
    /\ report' = PrLocals.report
    /\ died_at' = [ppc |-> ppc, ti |-> ti, dirty |-> in_txn]
    /\ UNCHANGED <<exceptPr, messages, execute, store0, durable>>

PrNext ==
    \/ PrCount
    \/ PrClassify
    \/ PrResolveBatch
    \/ PrBranch
    \/ PrDeleteBatch
    \/ PrCommit
    \/ PrVerify
    \/ PrCrash

\* The classifier on its own: the script up to the end of the pattern loop.
ClNext ==
    \/ PrCount
    \/ PrClassify

(***************************************************************************)
(* backfill-image-embeddings.py: the Resumable Embedding Populator.        *)
(***************************************************************************)
NRec == 3       \* rows of image_analysis
MaxRuns == 2    \* runs of the script, one after the other

EMBEDDING_MODEL == "nomic-embed-text"

EMBEDDING_DIM == 768

\* limit = batch_size if batch_size > 0 else 10000
ALL_LIMIT == 10000

IaIds == 1..NRec

\* The batch sizes given on the command line: 0 for all, one row, and one
\* row less than the table holds.
BatchArgs == {0, 1, NRec - 1}

\* The description of a row of image_analysis: NULL, empty or a text.
Descriptions ==
    { [is_null |-> TRUE, text |-> ""], [is_null |-> FALSE, text |-> ""],
      [is_null |-> FALSE, text |-> "A red chair"] }

\* The source column of image_analysis: the archive the image came from, or
\* NULL (written "NULL").
Sources == << "facebook", "chatgpt", "NULL" >>

\* The script only copies the source, so each row is given one source, by its
\* id, rather than every source in turn.
SourceOf(id) == Sources[((id - 1) % Len(Sources)) + 1]

\* A row of image_analysis, and the tables the script may find.
ImageAnalysisRow(d, s) == [is_null |-> d.is_null, text |-> d.text, source |-> s]

ImageAnalysisTables ==
    { [id \in IaIds |-> ImageAnalysisRow(d[id], SourceOf(id))] : d \in [IaIds -> Descriptions] }

\* The table when the script is not about.
NoImageAnalysis == [id \in IaIds |-> ImageAnalysisRow([is_null |-> TRUE, text |-> ""], SourceOf(id))]

\* What GET /api/tags may answer: nothing (no service, a timeout, a malformed
\* body), or the names of the installed models.
TagResponses ==
    { [reachable |-> FALSE, models |-> {}],
      [reachable |-> TRUE, models |-> {}],
      [reachable |-> TRUE, models |-> {"llava:13b", "nomic-embed-text:v1.5"}],
      [reachable |-> TRUE, models |-> {"nomic-embed-text"}],
      [reachable |-> TRUE, models |-> {"llava:13b", "nomic-embed-text:latest"}] }

\* What POST /api/embed may answer: nothing (no service, a timeout), a body
\* with no embeddings, or a vector of some length.
EmbedResponses ==
    { [kind |-> "unreachable", len |-> 0], [kind |-> "no_embeddings", len |-> 0] } \cup
    { [kind |-> "vector", len |-> n] :
        n \in {0, EMBEDDING_DIM - 1, EMBEDDING_DIM, EMBEDDING_DIM + 1} }

\* Lines 169-170: the required model is among the installed ones, under its
\* own name or with the tag :latest.
ModelInstalledAny(models) == TRUE

ModelInstalled(models) ==
    EMBEDDING_MODEL \in models \/ (EMBEDDING_MODEL \o ":latest") \in models

\* Lines 162-177: the probe lets the run go on.
ProbePasses(resp) == resp.reachable /\ ModelInstalled(resp.models)

\* embed_text: raises on no answer and on an answer without embeddings,
\* returns embeddings[0] otherwise (a vector, here its length).
EmbedRaises(resp) == resp.kind # "vector"

\* Lines 210-211: the dimension check raises.
DimensionRaisesNever(n) == FALSE

DimensionRaises(n) == n # EMBEDDING_DIM

\* float_list_to_blob: struct.pack of n floats of 4 bytes each (the size).
BlobBytes(n) == 4 * n

\* The rows of image_description_embeddings of a given image_analysis row.
EmbeddingsOf(ide, id) == {row \in ide : row.image_analysis_id = id}

\* The WHERE clause of get_descriptions_without_embeddings on one row of the
\* left join: a description that is not NULL and not empty, and no embedding.
IsCandidateAlways(ia, ide, id) == ~ia[id].is_null /\ ia[id].text # ""

IsCandidate(ia, ide, id) ==
    /\ ~ia[id].is_null
    /\ ia[id].text # ""
    /\ EmbeddingsOf(ide, id) = {}

\* The ids of a set in the order of the table scan.
RECURSIVE Ascending(_)
Ascending(S) ==
    IF S = {} THEN <<>>
    ELSE LET lo == CHOOSE a \in S : \A b \in S : a <= b IN <<lo>> \o Ascending(S \ {lo})

\* LIMIT ?: the number of rows the selection returns when pending rows pass
\* its WHERE clause.
SelectedCount(limit, pending) == Min(limit, pending)

\* get_descriptions_without_embeddings(conn, limit)
get_descriptions_without_embeddings(ia, ide, limit) ==
    LET ids == Ascending({id \in DOMAIN ia : IsCandidate(ia, ide, id)})
        n   == SelectedCount(limit, Len(ids))
    IN  [k \in 1..n |-> [id |-> ids[k], description |-> ia[ids[k]].text,
                         source |-> ia[ids[k]].source]]

\* limit = batch_size if batch_size > 0 else 10000
LimitOf(b) == IF b > 0 THEN b ELSE ALL_LIMIT

\* str(uuid.uuid4()): an identifier no row has.
FreshId(ide, vec) ==
    CHOOSE n \in 1..(Cardinality(ide) + Cardinality(vec) + 1) :
        \A row \in ide \cup vec : row.id # n

\* The relational row insert_description_embedding inserts.
EmbeddingRow(id, item, n) ==
    [id |-> id, image_analysis_id |-> item.id, text |-> item.description,
     nbytes |-> BlobBytes(n), model |-> EMBEDDING_MODEL, dimensions |-> EMBEDDING_DIM]

\* The row it mirrors into vec_image_descriptions.
VecRow(id, item, n) ==
    [id |-> id, image_analysis_id |-> item.id, source |-> item.source,
     nbytes |-> BlobBytes(n)]

\* How line 89 and the INSERT into image_description_embeddings may end: done,
\* or an exception (struct.error from float_list_to_blob for a vector with an
\* entry that is no number, an OperationalError such as a locked database).
RelOutcomes == {"ok", "error"}

\* How the INSERT into vec_image_descriptions may end.  "no_table" is an
\* OperationalError whose message contains "no such table": the one outcome
\* when the table is not there, and an outcome as well when it is there and
\* a table behind it is gone (a shadow table of the index, the target of a
\* trigger).  With the table there the INSERT may also be done, or raise
\* another OperationalError (its module is not loaded, the database is
\* locked).
VecOutcomes(exists) == IF exists THEN {"ok", "error", "no_table"} ELSE {"no_table"}

\* Lines 115-120: the except clause of the mirrored insert lets the function
\* return (TRUE) when nothing was raised or the message contains "no such
\* table", whatever table it names, and raises again otherwise.
VecInsertReturnsOnlyOk(outcome) == outcome = "ok"

VecInsertReturns(outcome) == outcome \in {"ok", "no_table"}

\* The committed tables after conn.commit(): what the connection sees.
CommittedAfterCommitLost(committed, seen) == committed

CommittedAfterCommit(committed, seen) == seen

\* The loop index after an item whose processing raised: the except clause
\* counts the error and the loop goes on with the next item.
IndexAfterErrorAbort(i, n) == n + 1

IndexAfterError(i, n) == i + 1

\* No answer of GET /api/tags is at hand.
NoProbe == [asked |-> FALSE, reachable |-> FALSE, models |-> {}]

\* The script's own variables when no process runs.
PoLocals ==
    [conn_open |-> FALSE, batch_arg |-> 0, descriptions |-> <<>>, idx |-> 0,
     embedding |-> 0, processed |-> 0, errors |-> 0]

NoRun == [outcome |-> "none", pending |-> 0, selected |-> 0, processed |-> 0, errors |-> 0]

\* The number of rows a selection without LIMIT would return.
PendingCount(ia, ide) == Cardinality({id \in DOMAIN ia : IsCandidate(ia, ide, id)})

\* The image_analysis rows with writes the connection has not committed.
Uncommitted(seen, committed) == {row.image_analysis_id : row \in seen \ committed}

PoInit ==
    /\ image_analysis \in ImageAnalysisTables
    /\ ide_exists = FALSE
    /\ ide_durable = {}
    /\ ide_seen = {}
    /\ vec_exists \in BOOLEAN
    /\ vec_durable = {}
    /\ vec_seen = {}
    /\ qpc = "idle"
    /\ run = 0
    /\ probe = NoProbe
    /\ conn_open = PoLocals.conn_open
    /\ batch_arg = PoLocals.batch_arg
    /\ descriptions = PoLocals.descriptions
    /\ idx = PoLocals.idx
    /\ embedding = PoLocals.embedding
    /\ processed = PoLocals.processed
    /\ errors = PoLocals.errors
    /\ npending = 0
    /\ prev_run = NoRun

\* Lines 147-150: the script starts, with a batch size on its command line.
PoStart ==
    /\ qpc = "idle"
    /\ run < MaxRuns
    /\ run' = run + 1
    /\ batch_arg' \in BatchArgs
    /\ qpc' = "probe"
    /\ conn_open' = FALSE
    /\ descriptions' = <<>>
    /\ idx' = 0
    /\ embedding' = 0
    /\ processed' = 0
    /\ errors' = 0
    /\ npending' = 0
    /\ probe' = NoProbe
    /\ UNCHANGED <<exceptPo, image_analysis, ide_exists, ide_durable, ide_seen, vec_exists,
                   vec_durable, vec_seen, prev_run>>

\* Lines 161-177: the pre-flight probe; the script returns when it fails.
PoProbe ==
    /\ qpc = "probe"
    /\ \E resp \in TagResponses :
          /\ probe' = [asked |-> TRUE, reachable |-> resp.reachable, models |-> resp.models]
          /\ IF ProbePasses(resp)
             THEN /\ qpc' = "open"
                  /\ UNCHANGED <<prev_run, batch_arg>>
             ELSE /\ qpc' = "idle"
                  /\ prev_run' = [NoRun EXCEPT !.outcome = "aborted"]
                  /\ batch_arg' = PoLocals.batch_arg
    /\ UNCHANGED <<exceptPo, npending, image_analysis, ide_exists, ide_durable, ide_seen, vec_exists,
                   vec_durable, vec_seen, run, conn_open, descriptions, idx, embedding,
                   processed, errors>>

\* Lines 179-183: connect, and ensure_tables_exist (CREATE TABLE IF NOT EXISTS,
\* then a commit).  The answer of the probe is not read again: the model
\* forgets it here, so that the answers that pass do not multiply the states.
PoOpen ==
    /\ qpc = "open"
    /\ conn_open' = TRUE
    /\ ide_exists' = TRUE
    /\ probe' = NoProbe
    /\ qpc' = "select"
    /\ UNCHANGED <<exceptPo, npending, image_analysis, ide_durable, ide_seen, vec_exists, vec_durable,
                   vec_seen, run, batch_arg, descriptions, idx, embedding, processed,
                   errors, prev_run>>

\* Lines 185-189: the selection query.
PoSelect ==
    /\ qpc = "select"
    /\ descriptions' =
          get_descriptions_without_embeddings(image_analysis, ide_seen, LimitOf(batch_arg))
    /\ npending' = PendingCount(image_analysis, ide_seen)
    /\ qpc' = "selected"
    /\ UNCHANGED <<exceptPo, image_analysis, ide_exists, ide_durable, ide_seen, vec_exists,
                   vec_durable, vec_seen, run, probe, conn_open, batch_arg, idx, embedding,
                   processed, errors, prev_run>>

\* Lines 192-199: nothing to embed, close and return; or enter the loop.
PoEnterLoop ==
    /\ qpc = "selected"
    /\ IF descriptions = <<>>
       THEN /\ conn_open' = FALSE
            /\ qpc' = "idle"
            /\ prev_run' = [NoRun EXCEPT !.outcome = "empty", !.pending = npending]
            /\ probe' = NoProbe
            /\ batch_arg' = PoLocals.batch_arg
            /\ npending' = 0
            /\ UNCHANGED <<idx, processed, errors>>
       ELSE /\ idx' = 1
            /\ processed' = 0
            /\ errors' = 0
            /\ qpc' = "embed"
            /\ UNCHANGED <<conn_open, prev_run, probe, batch_arg, npending>>
    /\ UNCHANGED <<exceptPo, image_analysis, ide_exists, ide_durable, ide_seen, vec_exists,
                   vec_durable, vec_seen, run, descriptions, embedding>>

\* Lines 205-211 and 225-227: the embedding request and the dimension check
\* of item idx; a failure is counted and the loop goes on.
PoEmbed ==
    /\ qpc = "embed"
    /\ idx <= Len(descriptions)
    /\ \E resp \in EmbedResponses :
          IF EmbedRaises(resp) \/ DimensionRaises(resp.len)
          THEN /\ errors' = errors + 1
               /\ idx' = IndexAfterError(idx, Len(descriptions))
               /\ embedding' = IF EmbedRaises(resp) THEN embedding ELSE resp.len
               /\ UNCHANGED qpc
          ELSE /\ embedding' = resp.len
               /\ qpc' = "insert"
               /\ UNCHANGED <<errors, idx>>
    /\ UNCHANGED <<exceptPo, npending, image_analysis, ide_exists, ide_durable, ide_seen, vec_exists,
                   vec_durable, vec_seen, run, probe, conn_open, batch_arg, descriptions,
                   processed, prev_run>>

\* Lines 213-220 and 225-227: insert_description_embedding for item idx.
\* When the packing of the vector or the relational INSERT raises, nothing is
\* written, main's except clause counts the error and the loop goes on.
\* Otherwise the relational INSERT opens the connection's transaction; when
\* the mirrored INSERT raises again, main's except clause counts the error and
\* the loop goes on, the relational row still in the open transaction.
PoInsert ==
    /\ qpc = "insert"
    /\ LET item == descriptions[idx]
           id   == FreshId(ide_seen \cup ide_durable, vec_seen \cup vec_durable)
       IN  \E rel \in RelOutcomes :
              IF rel = "error"
              THEN /\ errors' = errors + 1
                   /\ idx' = IndexAfterError(idx, Len(descriptions))
                   /\ qpc' = "embed"
                   /\ UNCHANGED <<ide_seen, vec_seen>>
              ELSE /\ ide_seen' = ide_seen \cup {EmbeddingRow(id, item, embedding)}
                   /\ \E outcome \in VecOutcomes(vec_exists) :
                         /\ vec_seen' = IF outcome = "ok"
                                        THEN vec_seen \cup {VecRow(id, item, embedding)}
                                        ELSE vec_seen
                         /\ IF VecInsertReturns(outcome)
                            THEN /\ qpc' = "commit"
                                 /\ UNCHANGED <<errors, idx>>
                            ELSE /\ errors' = errors + 1
                                 /\ idx' = IndexAfterError(idx, Len(descriptions))
                                 /\ qpc' = "embed"
    /\ embedding' = 0
    /\ UNCHANGED <<exceptPo, npending, image_analysis, ide_exists, ide_durable, vec_exists, vec_durable, run,
                   probe, conn_open, batch_arg, descriptions, processed, prev_run>>

\* How conn.commit() may end: done; an OperationalError that leaves the
\* transaction open (the database is locked by another connection); or an
\* OperationalError after which SQLite has rolled the transaction back (a
\* disk I/O error, a full disk).
CommitOutcomes == {"ok", "error", "rolled_back"}

\* What the connection sees of a table once conn.commit() has raised.
SeenAfterFailedCommit(outcome, seen, committed) ==
    IF outcome = "rolled_back" THEN committed ELSE seen

\* Lines 222 and 225-227: conn.commit().  When it raises, nothing becomes
\* durable, main's except clause counts the error and the loop goes on; the
\* rows not yet committed are still in the open transaction, or gone with the
\* transaction SQLite rolled back.
PoCommit ==
    /\ qpc = "commit"
    /\ \E outcome \in CommitOutcomes :
          IF outcome = "ok"
          THEN /\ ide_durable' = CommittedAfterCommit(ide_durable, ide_seen)
               /\ vec_durable' = CommittedAfterCommit(vec_durable, vec_seen)
               /\ qpc' = "count"
               /\ UNCHANGED <<errors, idx, ide_seen, vec_seen>>
          ELSE /\ ide_seen' = SeenAfterFailedCommit(outcome, ide_seen, ide_durable)
               /\ vec_seen' = SeenAfterFailedCommit(outcome, vec_seen, vec_durable)
               /\ errors' = errors + 1
               /\ idx' = IndexAfterError(idx, Len(descriptions))
               /\ qpc' = "embed"
               /\ UNCHANGED <<ide_durable, vec_durable>>
    /\ UNCHANGED <<exceptPo, npending, image_analysis, ide_exists, vec_exists, run, probe,
                   conn_open, batch_arg, descriptions, embedding, processed, prev_run>>

\* Line 223: processed += 1, and the loop goes on.
PoCount ==
    /\ qpc = "count"
    /\ processed' = processed + 1
    /\ idx' = idx + 1
    /\ qpc' = "embed"
    /\ UNCHANGED <<exceptPo, npending, image_analysis, ide_exists, ide_durable, ide_seen, vec_exists,
                   vec_durable, vec_seen, run, probe, conn_open, batch_arg, descriptions,
                   embedding, errors, prev_run>>

\* Lines 232-249: the loop is over; conn.close() drops what was not committed,
\* and the summary is printed.
PoFinish ==
    /\ qpc = "embed"
    /\ idx > Len(descriptions)
    /\ ide_seen' = ide_durable
    /\ vec_seen' = vec_durable
    /\ qpc' = "idle"
    /\ prev_run' = [outcome |-> "completed", pending |-> npending,
                    selected |-> Len(descriptions), processed |-> processed,
                    errors |-> errors]
    /\ probe' = NoProbe
    /\ npending' = 0
    /\ conn_open' = PoLocals.conn_open
    /\ batch_arg' = PoLocals.batch_arg
    /\ descriptions' = PoLocals.descriptions
    /\ idx' = PoLocals.idx
    /\ embedding' = PoLocals.embedding
    /\ processed' = PoLocals.processed
    /\ errors' = PoLocals.errors
    /\ UNCHANGED <<exceptPo, image_analysis, ide_exists, ide_durable, vec_exists, vec_durable, run>>

\* The process is terminated (a kill, a power loss) while it runs: its memory
\* is gone and SQLite rolls the open transaction back.
PoCrash ==
    /\ qpc # "idle"
    /\ ide_seen' = ide_durable
    /\ vec_seen' = vec_durable
    /\ qpc' = "idle"
    /\ prev_run' = [outcome |-> "killed", pending |-> npending,
                    selected |-> Len(descriptions), processed |-> processed,
                    errors |-> errors]
    /\ probe' = NoProbe
    /\ npending' = 0
    /\ conn_open' = PoLocals.conn_open
    /\ batch_arg' = PoLocals.batch_arg
    /\ descriptions' = PoLocals.descriptions
    /\ idx' = PoLocals.idx
    /\ embedding' = PoLocals.embedding
    /\ processed' = PoLocals.processed
    /\ errors' = PoLocals.errors
    /\ UNCHANGED <<exceptPo, image_analysis, ide_exists, ide_durable, vec_exists, vec_durable, run>>

\* Between two runs the application's migration creates vec_image_descriptions.
PoProvision ==
    /\ qpc = "idle"
    /\ ~vec_exists
    /\ vec_exists' = TRUE
    /\ UNCHANGED <<exceptPo, image_analysis, ide_exists, ide_durable, ide_seen, vec_durable,
                   vec_seen, qpc, run, probe, conn_open, batch_arg, descriptions, idx,
                   embedding, processed, errors, npending, prev_run>>

PoNext ==
    \/ PoStart
    \/ PoProbe
    \/ PoOpen
    \/ PoSelect
    \/ PoEnterLoop
    \/ PoEmbed
    \/ PoInsert
    \/ PoCommit
    \/ PoCount
    \/ PoFinish
    \/ PoCrash
    \/ PoProvision

\* The populator's store and variables with no populator about.
PoIdle ==
    /\ image_analysis = NoImageAnalysis
    /\ ide_exists = FALSE
    /\ ide_durable = {}
    /\ ide_seen = {}
    /\ vec_exists = FALSE
    /\ vec_durable = {}
    /\ vec_seen = {}
    /\ qpc = "idle"
    /\ run = 0
    /\ probe = NoProbe
    /\ conn_open = PoLocals.conn_open
    /\ batch_arg = PoLocals.batch_arg
    /\ descriptions = PoLocals.descriptions
    /\ idx = PoLocals.idx
    /\ embedding = PoLocals.embedding
    /\ processed = PoLocals.processed
    /\ errors = PoLocals.errors
    /\ npending = 0
    /\ prev_run = NoRun

\* The pruner's store and variables with no pruner about.
PrIdle ==
    /\ PrStart([i \in MsgIds |-> {NullMsg("assistant")}])
    /\ execute = FALSE
    /\ store0 = StoreOf([r \in RowIds |-> [p |-> "none", o |-> 0]])
    /\ durable = store0
    /\ working = store0

(***************************************************************************)
(* The Populator's selection on a store of any size: the batch size of the *)
(* command line, the limit made of it and the number of rows selected.     *)
(***************************************************************************)
\* batch_size: 100 without an argument, or the number given.
SelBatchSizes == {0, 1, 2, 100, 9999, 10000, 10001}

\* How many rows of image_analysis have a description and no embedding.
SelPendingCounts == {0, 1, 2, 3, 99, 100, 101, 9999, 10000, 10001, 20000, 50000}

SelInit ==
    /\ sel_pc = "args"
    /\ sel_batch \in SelBatchSizes
    /\ sel_pending \in SelPendingCounts
    /\ sel_limit = 0
    /\ sel_count = 0

\* Line 186: limit = batch_size if batch_size > 0 else 10000
SelLimit ==
    /\ sel_pc = "args"
    /\ sel_limit' = LimitOf(sel_batch)
    /\ sel_pc' = "limit"
    /\ UNCHANGED <<exceptSel, sel_batch, sel_pending, sel_count>>

\* Line 187: descriptions = get_descriptions_without_embeddings(conn, limit)
SelQuery ==
    /\ sel_pc = "limit"
    /\ sel_count' = SelectedCount(sel_limit, sel_pending)
    /\ sel_pc' = "selected"
    /\ UNCHANGED <<exceptSel, sel_batch, sel_pending, sel_limit>>

SelNext ==
    \/ SelLimit
    \/ SelQuery

\* The selection's variables with no selection about.
SelIdle ==
    /\ sel_pc = "idle"
    /\ sel_batch = 0
    /\ sel_pending = 0
    /\ sel_limit = 0
    /\ sel_count = 0

(***************************************************************************)
(* direct-image-analysis.py: the vision Service Probe, get_vision_model.   *)
(***************************************************************************)
VETTED_OLLAMA_MODELS ==
    << "qwen3-vl:8b", "qwen2-vl:7b", "llava:13b", "llava:7b", "llava:34b",
       "llama3.2-vision:11b", "minicpm-v:8b" >>

DEFAULT_MODEL == "qwen3-vl:8b"

Vetted == SeqToSet(VETTED_OLLAMA_MODELS)

\* VISION_MODEL in the environment: unset, a vetted name or another name.
EnvChoices ==
    { [set |-> FALSE, value |-> ""] } \cup
    { [set |-> TRUE, value |-> m] : m \in Vetted \cup {"bakllava:7b", "gpt-4o"} }

\* What GET /api/tags may answer: a URLError (no service), another exception
\* (a timeout while reading, a malformed body), or the installed names.
VisionTagResponses ==
    { [kind |-> "urlerror", installed |-> {}], [kind |-> "exception", installed |-> {}] } \cup
    { [kind |-> "models", installed |-> S] : S \in SUBSET (Vetted \cup {"bakllava:7b"}) }

NoVisionTags == [kind |-> "none", installed |-> {}]

\* Line 55: os.environ.get('VISION_MODEL', DEFAULT_MODEL)
Configured(env) == IF env.set THEN env.value ELSE DEFAULT_MODEL

\* Lines 57-60: a model outside the vetted list is replaced by the default.
VetModelUnchecked(m) == m

VetModel(m) == IF m \in Vetted THEN m ELSE DEFAULT_MODEL

\* Lines 74-78: the first entry of the vetted list, from entry k on, that is
\* installed; a RuntimeError when there is none.
RECURSIVE FirstInstalled(_, _)
FirstInstalled(k, installed) ==
    IF k > Len(VETTED_OLLAMA_MODELS) THEN [status |-> "raised", model |-> ""]
    ELSE IF VETTED_OLLAMA_MODELS[k] \in installed
         THEN [status |-> "returned", model |-> VETTED_OLLAMA_MODELS[k]]
         ELSE FirstInstalled(k + 1, installed)

\* Lines 62-82: the check against the installed models.  A URLError is caught
\* and the model is returned unverified; any other exception leaves the
\* function.
VerifyInstalled(m, resp) ==
    CASE resp.kind = "urlerror"  -> [status |-> "returned", model |-> m]
      [] resp.kind = "exception" -> [status |-> "raised", model |-> ""]
      [] OTHER -> IF m \in resp.installed
                  THEN [status |-> "returned", model |-> m]
                  ELSE FirstInstalled(1, resp.installed)

ViInit ==
    /\ vision_env \in EnvChoices
    /\ vpc = "vet"
    /\ vmodel = ""
    /\ vtags = NoVisionTags
    /\ vresult = [status |-> "none", model |-> ""]

\* Lines 55-60: read the environment and vet the model.
ViVet ==
    /\ vpc = "vet"
    /\ vmodel' = VetModel(Configured(vision_env))
    /\ vpc' = "tags"
    /\ UNCHANGED <<exceptVi, vision_env, vtags, vresult>>

\* Lines 62-82: ask the service and return a model, or raise.
ViVerify ==
    /\ vpc = "tags"
    /\ \E resp \in VisionTagResponses :
          /\ vtags' = resp
          /\ vresult' = VerifyInstalled(vmodel, resp)
    /\ vpc' = "done"
    /\ UNCHANGED <<exceptVi, vision_env, vmodel>>

ViNext ==
    \/ ViVet
    \/ ViVerify

\* The vision tool's variables with no vision tool about.
ViIdle ==
    /\ vision_env = [set |-> FALSE, value |-> ""]
    /\ vpc = "idle"
    /\ vmodel = ""
    /\ vtags = NoVisionTags
    /\ vresult = [status |-> "none", model |-> ""]

(***************************************************************************)
(* direct-image-analysis.py: main, the vision analysis run.                *)
(***************************************************************************)
NImg == 3       \* image files under ARCHIVE_ROOT

ImagePaths == 1..NImg

\* max_images on the command line; 0 stands for all.
MaxImagesArgs == {0, 1, NImg - 1}

\* VISION_MODEL in the environment of a run.
VmEnvChoices ==
    { [set |-> FALSE, value |-> ""], [set |-> TRUE, value |-> "llava:13b"],
      [set |-> TRUE, value |-> "gpt-4o"] }

\* What GET /api/tags may answer to a run.
VmTagResponses ==
    { [kind |-> "urlerror", installed |-> {}],
      [kind |-> "exception", installed |-> {}],
      [kind |-> "models", installed |-> {}],
      [kind |-> "models", installed |-> {"qwen3-vl:8b", "bakllava:7b"}] }

\* What POST /api/generate may answer: nothing usable (no service, a timeout,
\* a body that is not JSON, a response text that is JSON and no object), a
\* response text that is a JSON object, one that is a JSON object whose
\* description is no string (null, a number), or a response text that is not
\* JSON.
GenerateResponses == {"error", "json", "json_no_text", "malformed"}

\* get_vision_model()
get_vision_model(env, resp) == VerifyInstalled(VetModel(Configured(env)), resp)

NoAnalysis ==
    [fallback |-> FALSE, description |-> "str", scene |-> "", mood |-> "", model_used |-> ""]

\* Lines 154-183: the record analyze_image_with_ollama returns; the except
\* clause of the parse builds the fallback record.  Of the description the
\* record keeps the type: "str", or "other" for a null or a number.
AnalysisOf(kind, model) ==
    IF kind \in {"json", "json_no_text"}
    THEN [fallback |-> FALSE, description |-> IF kind = "json" THEN "str" ELSE "other",
          scene |-> "indoor", mood |-> "serene", model_used |-> model]
    ELSE [fallback |-> TRUE, description |-> "str", scene |-> "unknown", mood |-> "neutral",
          model_used |-> model]

\* Line 271: the preview of the description, len(analysis["description"]) and
\* a slice, raises TypeError for a description that is no string.
PreviewRaises(a) == a.description # "str"

\* analyze_image_with_ollama(image_path) under one answer of GET /api/tags and
\* one of POST /api/generate: the record it returns, or that it raised.
AnalyzeOutcome(env, resp, kind) ==
    LET result == get_vision_model(env, resp)
    IN  IF result.status = "returned" /\ kind # "error"
        THEN [returned |-> TRUE, analysis |-> AnalysisOf(kind, result.model)]
        ELSE [returned |-> FALSE, analysis |-> NoAnalysis]

\* What the call may do, over the answers of the two requests.
AnalyzeOutcomes(env) ==
    {AnalyzeOutcome(env, p[1], p[2]) : p \in VmTagResponses \X GenerateResponses}

\* get_analyzed_paths()
get_analyzed_paths(rows) == {row.file_path : row \in rows}

\* find_unanalyzed_images(analyzed_paths, max_count): the walk of the archive
\* stops at max_count images when max_count > 0.
find_images(analyzed_paths, max_count) ==
    LET found == Ascending(ImagePaths)
    IN  IF max_count > 0 THEN SubSeq(found, 1, Min(max_count, Len(found))) ELSE found

find_unanalyzed_images(analyzed_paths, max_count) ==
    LET found == Ascending(ImagePaths \ analyzed_paths)
    IN  IF max_count > 0 THEN SubSeq(found, 1, Min(max_count, Len(found))) ELSE found

\* save_to_database: INSERT OR REPLACE of the row of image_path, committed.
RowsAfterSave(rows, image_path, a) ==
    {row \in rows : row.file_path # image_path} \cup
    {[file_path |-> image_path, fallback |-> a.fallback, scene |-> a.scene,
      mood |-> a.mood, model_used |-> a.model_used]}

\* Lines 232-233: the call of get_vision_model at the start of main lets the
\* run go on when it returns a model; an exception it raises ends the process.
RunGoesOn(result) == result.status = "returned"

NoVisionRun == [outcome |-> "none"]

VmLocals ==
    [max_images |-> 0, wprobe |-> "none", wmodel |-> "", unanalyzed |-> <<>>, wi |-> 0,
     analysis |-> NoAnalysis, wprocessed |-> 0, werrors |-> 0]

VmInit ==
    /\ vision_env \in VmEnvChoices
    /\ vpc = "idle"
    /\ vmodel = ""
    /\ vtags = NoVisionTags
    /\ vresult = [status |-> "none", model |-> ""]
    /\ analysis_rows = {}
    /\ wpc = "idle"
    /\ max_images = VmLocals.max_images
    /\ wprobe = VmLocals.wprobe
    /\ wmodel = VmLocals.wmodel
    /\ unanalyzed = VmLocals.unanalyzed
    /\ wi = VmLocals.wi
    /\ analysis = VmLocals.analysis
    /\ wprocessed = VmLocals.wprocessed
    /\ werrors = VmLocals.werrors
    /\ wprev = NoVisionRun
    /\ wfailed = {}

\* The locals of a process that is gone.
VmForget ==
    /\ max_images' = VmLocals.max_images
    /\ wprobe' = VmLocals.wprobe
    /\ wmodel' = VmLocals.wmodel
    /\ unanalyzed' = VmLocals.unanalyzed
    /\ wi' = VmLocals.wi
    /\ analysis' = VmLocals.analysis
    /\ wprocessed' = VmLocals.wprocessed
    /\ werrors' = VmLocals.werrors

\* How the run that ends now is recorded: the way it ended.  The counts of
\* its summary go with the process.
VmRecord(outcome) == [outcome |-> outcome]

\* Lines 221-229: the script starts, with max_images on its command line.
VmStart ==
    /\ wpc = "idle"
    /\ max_images' \in MaxImagesArgs
    /\ wpc' = "probe"
    /\ UNCHANGED <<exceptVm, analysis_rows, wprobe, wmodel, unanalyzed, wi, analysis,
                   wprocessed, werrors, wprev, wfailed>>

\* Line 232: model = get_vision_model().
VmProbe ==
    /\ wpc = "probe"
    /\ \E resp \in VmTagResponses :
          LET result == get_vision_model(vision_env, resp)
          IN  IF RunGoesOn(result)
              THEN /\ wprobe' = resp.kind
                   /\ wmodel' = result.model
                   /\ wpc' = "scan"
                   /\ UNCHANGED <<max_images, unanalyzed, wi, analysis, wprocessed, werrors,
                                  wprev>>
              ELSE /\ wpc' = "idle"
                   /\ wprev' = [NoVisionRun EXCEPT !.outcome = "aborted"]
                   /\ VmForget
    /\ UNCHANGED <<exceptVm, analysis_rows, wfailed>>

\* Lines 243-258: the scan for images without an analysis; with none the run
\* is over.
VmScan ==
    /\ wpc = "scan"
    /\ LET found == find_unanalyzed_images(get_analyzed_paths(analysis_rows), max_images)
       IN  IF found = <<>>
           THEN /\ wpc' = "idle"
                /\ wprev' = [NoVisionRun EXCEPT !.outcome = "empty"]
                /\ VmForget
           ELSE /\ unanalyzed' = found
                /\ wi' = 1
                /\ wprocessed' = 0
                /\ werrors' = 0
                /\ wpc' = "analyze"
                /\ UNCHANGED <<max_images, wprobe, wmodel, analysis, wprev>>
    /\ UNCHANGED <<exceptVm, analysis_rows, wfailed>>

\* Lines 266 and 274-276: analyze_image_with_ollama(image_path), which asks
\* get_vision_model again and then the vision service; an exception is counted
\* and the loop goes on.
VmAnalyze ==
    /\ wpc = "analyze"
    /\ wi <= Len(unanalyzed)
    /\ \E out \in AnalyzeOutcomes(vision_env) :
          IF out.returned
          THEN /\ analysis' = out.analysis
               /\ wpc' = "save"
               /\ UNCHANGED <<wi, werrors, wfailed>>
          ELSE /\ werrors' = werrors + 1
               /\ wi' = wi + 1
               /\ wfailed' = wfailed \cup {unanalyzed[wi]}
               /\ UNCHANGED <<analysis, wpc>>
    /\ UNCHANGED <<exceptVm, analysis_rows, max_images, wprobe, wmodel, unanalyzed,
                   wprocessed, wprev>>

\* Lines 267 and 274-276: save_to_database(image_path, analysis); the row is
\* committed (line 218), or an exception (a locked database) is counted and
\* the loop goes on.
VmSave ==
    /\ wpc = "save"
    /\ \E saved \in BOOLEAN :
          IF saved
          THEN /\ analysis_rows' = RowsAfterSave(analysis_rows, unanalyzed[wi], analysis)
               /\ wfailed' = wfailed \ {unanalyzed[wi]}
               /\ wpc' = "count"
               /\ UNCHANGED <<analysis, wi, werrors>>
          ELSE /\ werrors' = werrors + 1
               /\ wfailed' = wfailed \cup {unanalyzed[wi]}
               /\ analysis' = NoAnalysis
               /\ wi' = wi + 1
               /\ wpc' = "analyze"
               /\ UNCHANGED analysis_rows
    /\ UNCHANGED <<exceptVm, max_images, wprobe, wmodel, unanalyzed, wprocessed, wprev>>

\* Line 270: processed += 1, the row of the image saved.
VmCount ==
    /\ wpc = "count"
    /\ wprocessed' = wprocessed + 1
    /\ wpc' = "preview"
    /\ UNCHANGED <<exceptVm, analysis_rows, max_images, wprobe, wmodel, unanalyzed, wi,
                   analysis, werrors, wprev, wfailed>>

\* Lines 271-276: the preview of the description and the report line.  When
\* the preview raises, the except clause counts an error for the image that
\* is saved and counted as processed; the loop goes on either way.
VmPreview ==
    /\ wpc = "preview"
    /\ werrors' = IF PreviewRaises(analysis) THEN werrors + 1 ELSE werrors
    /\ analysis' = NoAnalysis
    /\ wi' = wi + 1
    /\ wpc' = "analyze"
    /\ UNCHANGED <<exceptVm, analysis_rows, max_images, wprobe, wmodel, unanalyzed,
                   wprocessed, wprev, wfailed>>

\* Lines 281-289: the loop is over and the summary is printed.
VmFinish ==
    /\ wpc = "analyze"
    /\ wi > Len(unanalyzed)
    /\ wpc' = "idle"
    /\ wprev' = VmRecord("completed")
    /\ VmForget
    /\ UNCHANGED <<exceptVm, analysis_rows, wfailed>>

\* The process is terminated while it runs.
VmCrash ==
    /\ wpc # "idle"
    /\ wpc' = "idle"
    /\ wprev' = VmRecord("killed")
    /\ VmForget
    /\ UNCHANGED <<exceptVm, analysis_rows, wfailed>>

VmNext ==
    \/ VmStart
    \/ VmProbe
    \/ VmScan
    \/ VmAnalyze
    \/ VmSave
    \/ VmCount
    \/ VmPreview
    \/ VmFinish
    \/ VmCrash

\* The vision run's store and variables with no vision run about.
VmIdle ==
    /\ analysis_rows = {}
    /\ wpc = "idle"
    /\ max_images = VmLocals.max_images
    /\ wprobe = VmLocals.wprobe
    /\ wmodel = VmLocals.wmodel
    /\ unanalyzed = VmLocals.unanalyzed
    /\ wi = VmLocals.wi
    /\ analysis = VmLocals.analysis
    /\ wprocessed = VmLocals.wprocessed
    /\ werrors = VmLocals.werrors
    /\ wprev = NoVisionRun
    /\ wfailed = {}

(***************************************************************************)
(* The Blob Codec: float_list_to_blob packs a list of Python floats as     *)
(* 32-bit IEEE 754 values, 4 bytes each, in the byte order of the machine  *)
(* (little-endian here).  A float is written [neg, m, e] and stands for    *)
(* (-1)^neg * m * 2^e; the samples have significands of up to 26 bits, so  *)
(* that the narrowing to 24 bits rounds.  An infinity is written           *)
(* [neg, inf] and a value that is no number [nan].                         *)
(***************************************************************************)
MaxVec == 2     \* floats in a vector

RECURSIVE Pow2(_)
Pow2(k) == IF k <= 0 THEN 1 ELSE 2 * Pow2(k - 1)

\* The number of bits of m.
RECURSIVE BitLen(_)
BitLen(m) == IF m = 0 THEN 0 ELSE 1 + BitLen(m \div 2)

Flt(neg, m, e) == [neg |-> neg, m |-> m, e |-> e]

Infinity(neg) == [neg |-> neg, inf |-> TRUE]

NotANumber == [nan |-> TRUE]

IsFinite(x) == "m" \in DOMAIN x

FloatSamples ==
    { Flt(FALSE, 0, 0),               \* 0.0
      Flt(FALSE, 1, 0),               \* 1.0
      Flt(TRUE, 1, -1),               \* -0.5
      Flt(FALSE, 53687091, -29),      \* 0.1 to 26 bits
      Flt(TRUE, 53687091, -29),       \* -0.1 to 26 bits
      Flt(FALSE, 16777217, 0),        \* 2^24 + 1: halfway, rounds to even (down)
      Flt(FALSE, 16777219, 0),        \* 2^24 + 3: halfway, rounds to even (up)
      Flt(FALSE, 33554431, 0),        \* 2^25 - 1: rounds up into the next binade
      Flt(FALSE, 16777215, 104),      \* the largest 32-bit float
      Flt(FALSE, 67108861, 102),      \* above the largest, rounds down to it
      Flt(FALSE, 33554431, 103),      \* below 2^128, rounds to it: an infinity
      Flt(FALSE, 1, 130),             \* about 1.4e39: an infinity
      Flt(TRUE, 1, 130),              \* about -1.4e39: an infinity
      Flt(FALSE, 1, -126),            \* the smallest normal 32-bit float
      Flt(FALSE, 3, -150),            \* 1.5 * 2^-149: a subnormal, halfway
      Flt(TRUE, 1, -200) }            \* about -6e-61: underflows to -0.0

\* The significand m shifted right by s bits, rounded to nearest, ties to even.
RoundHalfEven(m, s) ==
    LET d    == Pow2(s)
        lo   == m \div d
        rem  == m % d
    IN  IF 2 * rem > d \/ (2 * rem = d /\ lo % 2 = 1) THEN lo + 1 ELSE lo

\* The conversion of a float to a 32-bit float: its sign, its significand r
\* and the exponent q of its last bit (r * 2^q); overflow says that the float
\* is too large for 32 bits, and the C conversion makes it an infinity.
Narrow(x) ==
    IF x.m = 0 THEN [overflow |-> FALSE, neg |-> x.neg, r |-> 0, q |-> -149]
    ELSE LET E  == x.e + BitLen(x.m) - 1
             q0 == IF E - 23 > -149 THEN E - 23 ELSE -149
             s  == q0 - x.e
             r0 == IF s <= 0 THEN x.m * Pow2(-s)
                   ELSE IF s > 27 THEN 0
                   ELSE RoundHalfEven(x.m, s)
             r  == IF r0 = Pow2(24) THEN Pow2(23) ELSE r0
             q  == IF r0 = Pow2(24) THEN q0 + 1 ELSE q0
         IN  [overflow |-> (r >= Pow2(23) /\ q + 23 > 127), neg |-> x.neg, r |-> r, q |-> q]

\* The four bytes of a 32-bit float: 1 bit of sign, 8 of exponent, 23 of
\* fraction, the least significant byte first.
FloatBytes(n) ==
    LET sign == IF n.neg THEN 1 ELSE 0
        expo == IF n.overflow THEN 255 ELSE IF n.r < Pow2(23) THEN 0 ELSE n.q + 150
        frac == IF n.overflow THEN 0 ELSE IF n.r < Pow2(23) THEN n.r ELSE n.r - Pow2(23)
    IN  << frac % 256, (frac \div 256) % 256, (frac \div 65536) + 128 * (expo % 2),
           (expo \div 2) + 128 * sign >>

\* struct.pack('f', x) in the native format: the four bytes of the C float
\* that x converts to.  The native format does not check the range, and a
\* float too large for 32 bits gives the bytes of an infinity.
PackFloatBigEndian(x) ==
    LET b == FloatBytes(Narrow(x))
    IN  <<b[4], b[3], b[2], b[1]>>

PackFloat(x) == FloatBytes(Narrow(x))

RECURSIVE ConcatBytes(_)
ConcatBytes(packed) ==
    IF packed = <<>> THEN <<>> ELSE Head(packed) \o ConcatBytes(Tail(packed))

\* float_list_to_blob(floats): struct.pack(f'{len(floats)}f', *floats)
float_list_to_blob(floats) ==
    ConcatBytes([k \in 1..Len(floats) |-> PackFloat(floats[k])])

\* The reading of four bytes as a 32-bit float of the machine's byte order.
UnpackFloat(b) ==
    LET sign == b[4] \div 128
        expo == 2 * (b[4] % 128) + (b[3] \div 128)
        frac == 65536 * (b[3] % 128) + 256 * b[2] + b[1]
    IN  IF expo = 255 THEN (IF frac = 0 THEN Infinity(sign = 1) ELSE NotANumber)
        ELSE IF expo = 0 THEN Flt(sign = 1, frac, -149)
        ELSE Flt(sign = 1, frac + Pow2(23), expo - 150)

\* The decoding of a blob of n floats, n known from the dimensions column.
blob_to_float_list(bytes, n) ==
    [k \in 1..n |-> UnpackFloat(SubSeq(bytes, 4 * k - 3, 4 * k))]

NoBlob == <<>>

Vectors == UNION {[1..n -> FloatSamples] : n \in 0..MaxVec}

CodInit ==
    /\ cod_pc = "vector"
    /\ cod_vector \in Vectors
    /\ cod_blob = NoBlob
    /\ cod_decoded = <<>>

\* Line 59: the vector is packed.
CodEncode ==
    /\ cod_pc = "vector"
    /\ cod_blob' = float_list_to_blob(cod_vector)
    /\ cod_pc' = "encoded"
    /\ UNCHANGED <<exceptCod, cod_vector, cod_decoded>>

\* The blob is read back by its reader.
CodDecode ==
    /\ cod_pc = "encoded"
    /\ cod_decoded' = blob_to_float_list(cod_blob, Len(cod_vector))
    /\ cod_pc' = "decoded"
    /\ UNCHANGED <<exceptCod, cod_vector, cod_blob>>

CodNext ==
    \/ CodEncode
    \/ CodDecode

\* The codec's variables with no codec about.
CodIdle ==
    /\ cod_pc = "idle"
    /\ cod_vector = <<>>
    /\ cod_blob = NoBlob
    /\ cod_decoded = <<>>

(***************************************************************************)
(* The Populator run again and again on one store, with the same batch     *)
(* size, against a service that gives every description the same answer    *)
(* each time it is asked.  The probe passes and no insert and no commit   *)
(* raises: each run goes from its selection to its summary.                *)
(***************************************************************************)
\* The answers a description may get each time: a body with no embeddings, or
\* a vector of the expected length.
RrAnswers ==
    {r \in EmbedResponses : r.kind = "no_embeddings" \/ (r.kind = "vector" /\ r.len = EMBEDDING_DIM)}

\* The batch sizes of the command line: positive.
RrBatchArgs == 1..NRec

RrInit ==
    /\ rr_ia \in ImageAnalysisTables
    /\ rr_answer \in [IaIds -> RrAnswers]
    /\ rr_batch \in RrBatchArgs
    /\ rr_ide = {}
    /\ rr_pc = "idle"
    /\ rr_descriptions = PoLocals.descriptions
    /\ rr_idx = PoLocals.idx
    /\ rr_processed = PoLocals.processed
    /\ rr_errors = PoLocals.errors

\* Lines 147-189: a run starts, the probe passes, the store is opened and the
\* selection query runs with limit = batch_size.
RrSelect ==
    /\ rr_pc = "idle"
    /\ rr_descriptions' = get_descriptions_without_embeddings(rr_ia, rr_ide, LimitOf(rr_batch))
    /\ rr_pc' = "selected"
    /\ UNCHANGED <<exceptRr, rr_ia, rr_answer, rr_batch, rr_ide, rr_idx, rr_processed, rr_errors>>

\* Lines 192-199: nothing to embed, close and return; or enter the loop.
RrEnterLoop ==
    /\ rr_pc = "selected"
    /\ IF rr_descriptions = <<>>
       THEN /\ rr_pc' = "idle"
            /\ UNCHANGED <<rr_idx, rr_processed, rr_errors>>
       ELSE /\ rr_idx' = 1
            /\ rr_processed' = 0
            /\ rr_errors' = 0
            /\ rr_pc' = "embed"
    /\ UNCHANGED <<exceptRr, rr_ia, rr_answer, rr_batch, rr_ide, rr_descriptions>>

\* Lines 201-230: item idx of the loop: the embedding request and the dimension
\* check, then the insert and the commit; a failure is counted and the loop
\* goes on.
RrItem ==
    /\ rr_pc = "embed"
    /\ rr_idx <= Len(rr_descriptions)
    /\ LET item == rr_descriptions[rr_idx]
           resp == rr_answer[item.id]
       IN  IF EmbedRaises(resp) \/ DimensionRaises(resp.len)
           THEN /\ rr_errors' = rr_errors + 1
                /\ rr_idx' = IndexAfterError(rr_idx, Len(rr_descriptions))
                /\ UNCHANGED <<rr_ide, rr_processed>>
           ELSE /\ rr_ide' = CommittedAfterCommit(rr_ide,
                                rr_ide \cup {EmbeddingRow(FreshId(rr_ide, {}), item, resp.len)})
                /\ rr_processed' = rr_processed + 1
                /\ rr_idx' = rr_idx + 1
                /\ UNCHANGED rr_errors
    /\ UNCHANGED <<exceptRr, rr_ia, rr_answer, rr_batch, rr_pc, rr_descriptions>>

\* Lines 232-249: the loop is over, the summary is printed and the process ends.
RrFinish ==
    /\ rr_pc = "embed"
    /\ rr_idx > Len(rr_descriptions)
    /\ rr_pc' = "idle"
    /\ rr_descriptions' = PoLocals.descriptions
    /\ rr_idx' = PoLocals.idx
    /\ rr_processed' = PoLocals.processed
    /\ rr_errors' = PoLocals.errors
    /\ UNCHANGED <<exceptRr, rr_ia, rr_answer, rr_batch, rr_ide>>

RrNext ==
    \/ RrSelect
    \/ RrEnterLoop
    \/ RrItem
    \/ RrFinish

\* The repeated runs' store and variables with no such runs about.
RrIdle ==
    /\ rr_ia = NoImageAnalysis
    /\ rr_answer = [id \in IaIds |-> [kind |-> "no_embeddings", len |-> 0]]
    /\ rr_batch = 0
    /\ rr_ide = {}
    /\ rr_pc = "off"
    /\ rr_descriptions = PoLocals.descriptions
    /\ rr_idx = PoLocals.idx
    /\ rr_processed = PoLocals.processed
    /\ rr_errors = PoLocals.errors

(***************************************************************************)
(* direct-image-analysis.py: analyze_image_with_ollama, from the response  *)
(* text of the vision service to the record it returns.  A text is a list  *)
(* of tokens: "ws" (white space), "fence" (three backquotes), "json" (the  *)
(* word json), "word" (other prose), the JSON punctuation, the JSON values *)
(* "str", "num", "arr" and "null", and the member names.                   *)
(***************************************************************************)
\* response_text[:500]
DESCRIPTION_LIMIT == 500

\* The object the prompt asks for.
FullObject ==
    << "{", "description", ":", "str", ",", "categories", ":", "arr", ",",
       "objects", ":", "arr", ",", "scene", ":", "str", ",", "mood", ":", "str", "}" >>

\* Response texts a vision model may give.
ResponseSamples ==
    [ object            |-> FullObject,
      padded            |-> <<"ws">> \o FullObject \o <<"ws">>,
      fenced_json       |-> <<"fence", "json", "ws">> \o FullObject \o <<"ws", "fence">>,
      fenced            |-> <<"fence", "ws">> \o FullObject \o <<"ws", "fence">>,
      fence_open        |-> <<"fence", "json", "ws">> \o FullObject,
      fence_trailer     |-> <<"fence", "json">> \o FullObject \o <<"fence", "ws", "word">>,
      tag_on_next_line  |-> <<"fence", "ws", "json", "ws">> \o FullObject \o <<"ws", "fence">>,
      prose_then_fence  |-> <<"word", "ws", "fence", "json">> \o FullObject \o <<"fence">>,
      object_then_prose |-> FullObject \o <<"ws", "word">>,
      prose             |-> <<"word", "ws", "word">>,
      empty             |-> <<>>,
      blank             |-> <<"ws">>,
      fence_only        |-> <<"fence">>,
      cut_short         |-> SubSeq(FullObject, 1, 8),
      string            |-> <<"str">>,
      number            |-> <<"num">>,
      array             |-> <<"arr">>,
      null              |-> <<"null">>,
      fenced_string     |-> <<"fence", "json", "ws", "str", "ws", "fence">>,
      empty_object      |-> <<"{", "}">>,
      description_only  |-> <<"{", "description", ":", "str", "}">>,
      other_key         |-> <<"{", "caption", ":", "str", "}">>,
      null_description  |-> <<"{", "description", ":", "null", ",", "scene", ":", "str", ",",
                              "mood", ":", "str", "}">>,
      twice             |-> <<"{", "scene", ":", "str", ",", "scene", ":", "num", "}">> ]

\* The number of characters of a "word" and of a "str" (its quotes included).
WordWidths == {5, 480, 600}

\* The number of characters of a token.
TokenWidth(tok, w) ==
    CASE tok \in {"word", "str"}          -> w
      [] tok \in {"ws", "{", "}", ":", ","} -> 1
      [] tok = "fence"                    -> 3
      [] tok \in {"json", "null"}         -> 4
      [] tok = "num"                      -> 2
      [] tok = "arr"                      -> 5
      [] OTHER                            -> Len(tok) + 2

\* len(response_text)
RECURSIVE TextChars(_, _)
TextChars(tokens, w) ==
    IF tokens = <<>> THEN 0 ELSE TokenWidth(Head(tokens), w) + TextChars(Tail(tokens), w)

\* response_text.strip()
Strip(tokens) ==
    LET solid == {i \in 1..Len(tokens) : tokens[i] # "ws"}
    IN  IF solid = {} THEN <<>>
        ELSE SubSeq(tokens, CHOOSE i \in solid : \A j \in solid : i <= j,
                            CHOOSE i \in solid : \A j \in solid : i >= j)

\* cleaned.split("```")[1], for a text that starts with a fence: what stands
\* between the first fence and the next one, or the end.
SplitSecond(tokens) ==
    LET rest   == Tail(tokens)
        fences == {i \in 1..Len(rest) : rest[i] = "fence"}
    IN  IF fences = {} THEN rest
        ELSE SubSeq(rest, 1, (CHOOSE i \in fences : \A j \in fences : i <= j) - 1)

\* if cleaned.startswith("json"): cleaned = cleaned[4:]
DropTag(tokens) == IF tokens # <<>> /\ Head(tokens) = "json" THEN Tail(tokens) ELSE tokens

\* Lines 159-163: the text json.loads is given.
Cleaned(tokens) ==
    LET cleaned == Strip(tokens)
    IN  IF cleaned # <<>> /\ Head(cleaned) = "fence" THEN DropTag(SplitSecond(cleaned))
        ELSE cleaned

NotWs(tok) == tok # "ws"

JsonScalars == {"str", "num", "arr", "null"}

\* The tokens between the braces are members: name, colon, value, with commas
\* between them.
IsMembers(inner) ==
    \/ inner = <<>>
    \/ /\ Len(inner) % 4 = 3
       /\ \A i \in 1..Len(inner) :
             CASE i % 4 = 1 -> inner[i] \notin JsonScalars \cup {"{", "}", ":", ",", "word", "fence", "json"}
               [] i % 4 = 2 -> inner[i] = ":"
               [] i % 4 = 3 -> inner[i] \in JsonScalars
               [] OTHER     -> inner[i] = ","

\* json.loads(cleaned): a JSONDecodeError, or the value: an object with its
\* members, or a value of another kind.
json_loads(tokens) ==
    LET s == SelectSeq(tokens, NotWs)
    IN  IF Len(s) = 1 /\ s[1] \in JsonScalars
        THEN [ok |-> TRUE, kind |-> s[1], members |-> <<>>]
        ELSE IF Len(s) >= 2 /\ s[1] = "{" /\ s[Len(s)] = "}" /\ IsMembers(SubSeq(s, 2, Len(s) - 1))
        THEN [ok |-> TRUE, kind |-> "object", members |-> SubSeq(s, 2, Len(s) - 1)]
        ELSE [ok |-> FALSE, kind |-> "none", members |-> <<>>]

\* analysis.get(key, default) on the members of an object: the value of the
\* last member of that name.
DictGet(members, key, default) ==
    LET at == {i \in 1..Len(members) : i % 4 = 1 /\ members[i] = key}
    IN  IF at = {} THEN default
        ELSE members[(CHOOSE i \in at : \A j \in at : i >= j) + 2]

NoRecord ==
    [description |-> "", description_chars |-> 0, categories |-> "", objects |-> "",
     scene |-> "", mood |-> "", model_used |-> ""]

\* Lines 154-183: the record returned for a response text, or the exception
\* that leaves the function: json.loads raising JSONDecodeError gives the
\* fallback, and a value that is no object has no get.
ParseAnalysis(text, model) ==
    LET loaded == json_loads(Cleaned(text.tokens))
    IN  IF ~loaded.ok
        THEN [raised |-> FALSE,
              record |-> [description |-> "raw",
                          description_chars |-> Min(text.chars, DESCRIPTION_LIMIT),
                          categories |-> "[]", objects |-> "[]",
                          scene |-> "unknown", mood |-> "neutral", model_used |-> model]]
        ELSE IF loaded.kind # "object"
        THEN [raised |-> TRUE, record |-> NoRecord]
        ELSE LET d == DictGet(loaded.members, "description", "''")
             IN  [raised |-> FALSE,
                  record |-> [description |-> d,
                              description_chars |-> IF d = "str" THEN text.width - 2 ELSE 0,
                              categories |-> DictGet(loaded.members, "categories", "[]"),
                              objects |-> DictGet(loaded.members, "objects", "[]"),
                              scene |-> DictGet(loaded.members, "scene", "unknown"),
                              mood |-> DictGet(loaded.members, "mood", "neutral"),
                              model_used |-> model]]

ParInit ==
    /\ par_pc = "text"
    /\ \E name \in DOMAIN ResponseSamples, w \in WordWidths :
          par_text = [name |-> name, tokens |-> ResponseSamples[name], width |-> w,
                      chars |-> TextChars(ResponseSamples[name], w)]
    /\ par_model \in {DEFAULT_MODEL, "llava:13b"}
    /\ par_result = [raised |-> FALSE, record |-> NoRecord]

\* Lines 154-183 on the response text.
ParParse ==
    /\ par_pc = "text"
    /\ par_result' = ParseAnalysis(par_text, par_model)
    /\ par_pc' = "parsed"
    /\ UNCHANGED <<exceptPar, par_text, par_model>>

ParNext ==
    \/ ParParse

\* The parse's variables with no parse about.
ParIdle ==
    /\ par_pc = "off"
    /\ par_text = [name |-> "empty", tokens |-> <<>>, width |-> 0, chars |-> 0]
    /\ par_model = ""
    /\ par_result = [raised |-> FALSE, record |-> NoRecord]

(***************************************************************************)
(* The specifications: one script at a time on its own store.              *)
(***************************************************************************)
PrunerInit == PrInit /\ PoIdle /\ ViIdle /\ VmIdle /\ SelIdle /\ CodIdle /\ RrIdle /\ ParIdle

SpecPruner == PrunerInit /\ [][PrNext]_vars

ClassifierInit == ClInit /\ PoIdle /\ ViIdle /\ VmIdle /\ SelIdle /\ CodIdle /\ RrIdle /\ ParIdle

SpecClassifier == ClassifierInit /\ [][ClNext]_vars

PopulatorInit == PoInit /\ PrIdle /\ ViIdle /\ VmIdle /\ SelIdle /\ CodIdle /\ RrIdle /\ ParIdle

SpecPopulator == PopulatorInit /\ [][PoNext]_vars

ProbeInit == ViInit /\ PrIdle /\ PoIdle /\ VmIdle /\ SelIdle /\ CodIdle /\ RrIdle /\ ParIdle

SpecProbe == ProbeInit /\ [][ViNext]_vars

VisionInit == VmInit /\ PrIdle /\ PoIdle /\ SelIdle /\ CodIdle /\ RrIdle /\ ParIdle

\* A process that runs takes its next step unless it is terminated, and the
\* tool goes on being run.
SpecVision == VisionInit /\ [][VmNext]_vars /\ WF_vars(VmNext)

SelectionInit == SelInit /\ PrIdle /\ PoIdle /\ ViIdle /\ VmIdle /\ CodIdle /\ RrIdle /\ ParIdle

SpecSelection == SelectionInit /\ [][SelNext]_vars

CodecInit == CodInit /\ PrIdle /\ PoIdle /\ ViIdle /\ VmIdle /\ SelIdle /\ RrIdle /\ ParIdle

SpecCodec == CodecInit /\ [][CodNext]_vars

RepeatedInit == RrInit /\ PrIdle /\ PoIdle /\ ViIdle /\ VmIdle /\ SelIdle /\ CodIdle /\ ParIdle

\* The script is started again whenever it has ended, and a run that has
\* started goes on to its end.
SpecRepeated == RepeatedInit /\ [][RrNext]_vars /\ WF_vars(RrNext)

ParseInit == ParInit /\ PrIdle /\ PoIdle /\ ViIdle /\ VmIdle /\ SelIdle /\ CodIdle /\ RrIdle

SpecParse == ParseInit /\ [][ParNext]_vars

(***************************************************************************)
(* The claims about the Noise Classifier and the Index Pruner.             *)
(***************************************************************************)
RECURSIVE SumSeq(_)
SumSeq(s) == IF s = <<>> THEN 0 ELSE Head(s) + SumSeq(Tail(s))

\* The ids of the messages that satisfy at least one condition.
NoiseIds(msgs) == {id \in DOMAIN msgs : \E k \in 1..Len(patterns) : Condition(k, msgs[id])}

\* The row addresses whose identifier in the text table is a noise id.
NoiseRowids(store, msgs) == {row[1] : row \in {q \in store[ID_TABLE] : q[2] \in NoiseIds(msgs)}}

\* The store without the rows of the given addresses.
Without(store, rowids) == [t \in TableNames |-> {row \in store[t] : row[1] \notin rowids}]

\* C1: when an execute run is done, no resolved row address is left in any of
\* the nine shadow tables, neither as committed nor as the connection sees them.
C1_ShadowConsistency ==
    (ppc = "done" /\ report.kind = "executed") =>
        \A k \in 1..Len(SHADOW_TABLES) :
            /\ RowidsIn(durable[SHADOW_TABLES[k]]) \cap rowids_to_delete = {}
            /\ RowidsIn(working[SHADOW_TABLES[k]]) \cap rowids_to_delete = {}

\* An execute run is done that resolved several addresses, one of them
\* present in all nine tables before, while another address stays in them.
C1_Witness ==
    /\ ppc = "done"
    /\ report.kind = "executed"
    /\ Cardinality(rowids_to_delete) >= 2
    /\ \E r \in rowids_to_delete : \A t \in TableNames : r \in RowidsIn(store0[t])
    /\ \E r \in RowIds \ rowids_to_delete : \A t \in TableNames : r \in RowidsIn(working[t])

\* C2: whatever the point at which the process dies, the committed store is
\* the store the run found or that store without every noise row address in
\* every table: never a store in which only some tables were pruned.
C2_CrashAtomicity ==
    \/ durable = store0
    \/ durable = Without(store0, NoiseRowids(store0, messages))

\* The process died between the deletes of two tables, with deletes of the
\* earlier tables made and not committed, and the committed store is untouched.
C2_Witness ==
    /\ ppc = "crashed"
    /\ died_at.ppc = "delete"
    /\ died_at.dirty
    /\ died_at.ti \in 2..Len(SHADOW_TABLES)
    /\ \E r \in NoiseRowids(store0, messages) : \A t \in TableNames : r \in RowidsIn(store0[t])
    /\ durable = store0

\* C3: without --execute no shadow table ever changes, committed or seen, so
\* the rowid registry's live count stays what it was.
C3_DryRunNoOp ==
    ~execute =>
        /\ durable = store0
        /\ working = store0
        /\ ~in_txn
        /\ Cardinality(durable["vec_messages_rowids"]) = Cardinality(store0["vec_messages_rowids"])

\* A dry run is done that resolved two or more row addresses of the registry.
C3_Witness ==
    /\ ~execute
    /\ ppc = "done"
    /\ report.kind = "preview"
    /\ report.removed >= 2
    /\ rowids_to_delete \cap RowidsIn(durable["vec_messages_rowids"]) # {}

\* C4: after the pattern loop the set of junk ids is exactly the set of ids
\* that satisfy at least one pattern, so the unique count printed is the size
\* of the union of the per-pattern match sets.
C4_UnionCorrectness ==
    ppc = "resolve" =>
        /\ junk_message_ids = NoiseIds(messages)
        /\ Cardinality(junk_message_ids) =
              Cardinality(UNION {SelectJunk(messages, k) : k \in 1..Len(patterns)})
        /\ Len(counts) = Len(patterns)
        /\ \A k \in 1..Len(patterns) : counts[k] = Cardinality(SelectJunk(messages, k))

\* The loop is over with a message matched by several patterns (the sum of the
\* counts exceeds the unique count), a message matched by one, and one by none.
C4_Witness ==
    /\ ppc = "resolve"
    /\ SumSeq(counts) > Cardinality(junk_message_ids)
    /\ junk_message_ids # {}
    /\ junk_message_ids # DOMAIN messages
    /\ \E id \in junk_message_ids :
          Cardinality({k \in 1..Len(patterns) : Condition(k, messages[id])}) = 1

(***************************************************************************)
(* The claims about the Resumable Embedding Populator.                     *)
(***************************************************************************)
\* The last run ended by itself: it went through its loop or found nothing.
RanToEnd == prev_run.outcome \in {"completed", "empty"}

\* C5 as stated: a run that follows a run that ended by itself selects no
\* candidate.
C5_SecondRunSelectsNothing ==
    (qpc = "selected" /\ RanToEnd) => descriptions = <<>>

\* C5 as amended: a run that follows a run that ended by itself, whose limit
\* covered every pending row and which counted no error, selects no candidate:
\* no row is pending.
C5_IdempotentBackfill ==
    (qpc = "selected" /\ RanToEnd /\ prev_run.errors = 0
        /\ prev_run.selected = prev_run.pending)
    => (descriptions = <<>> /\ npending = 0)

\* The second run has selected, after a first run that embedded two rows or
\* more, all that were pending, without an error.
C5_Witness ==
    /\ qpc = "selected"
    /\ prev_run.outcome = "completed"
    /\ prev_run.errors = 0
    /\ prev_run.selected = prev_run.pending
    /\ prev_run.processed >= 2
    /\ descriptions = <<>>

\* C6: no row of image_analysis ever has two embedding rows, committed or in
\* the open transaction.
C6_NoDoubleEmbedding ==
    \A id \in IaIds :
        /\ Cardinality(EmbeddingsOf(ide_durable, id)) <= 1
        /\ Cardinality(EmbeddingsOf(ide_seen, id)) <= 1

\* A later run has embedded a row after a run that was killed or had errors
\* and had embedded another.
C6_Witness ==
    /\ run >= 2
    /\ prev_run.processed >= 1
    /\ (prev_run.outcome = "killed" \/ prev_run.errors >= 1)
    /\ processed >= 1
    /\ Cardinality(ide_durable) >= 2

\* C7: at every point of a run (where the process may be terminated) the
\* candidates counted as processed have their embedding committed, and the
\* uncommitted writes are those of one candidate at most.
C7_PerItemCommit ==
    qpc # "idle" =>
        /\ processed <= Cardinality({k \in 1..Len(descriptions) :
                            EmbeddingsOf(ide_durable, descriptions[k].id) # {}})
        /\ Cardinality(Uncommitted(ide_seen, ide_durable)) <= 1

\* C8: in the loop every item before the current one was counted once, as
\* processed or as an error, and a run that went through its loop has counted
\* every selected candidate.
C8_ErrorsCounted ==
    /\ (qpc = "embed" => processed + errors = idx - 1)
    /\ (prev_run.outcome = "completed" =>
            prev_run.processed + prev_run.errors = prev_run.selected)

\* A run went through a loop of three candidates with an error and a success.
C8_Witness ==
    /\ prev_run.outcome = "completed"
    /\ prev_run.selected >= 3
    /\ prev_run.errors >= 1
    /\ prev_run.processed >= 1

\* The service did not answer, or answered without the required model.
ProbeFailed(p) ==
    /\ p.asked
    /\ ~(p.reachable /\ {"nomic-embed-text", "nomic-embed-text:latest"} \cap p.models # {})

\* C9: no step leads to a state in which the probe of the run has failed
\* other than by ending the run, with no connection opened, no candidate
\* selected or counted, and the store as it was.
C9_PreflightAbort ==
    [][ProbeFailed(probe') =>
          /\ qpc' = "idle"
          /\ ~conn_open'
          /\ descriptions' = <<>>
          /\ processed' = 0
          /\ errors' = 0
          /\ UNCHANGED <<ide_exists, ide_durable, ide_seen, vec_durable, vec_seen>>]_vars

\* The probe failed on a store with a pending row that was never opened.
C9_Witness ==
    /\ ProbeFailed(probe)
    /\ PendingCount(image_analysis, ide_durable) > 0
    /\ ~ide_exists
    /\ qpc = "idle"

(***************************************************************************)
(* The claims about the vision Service Probe.                              *)
(***************************************************************************)
\* The entry of the vetted list with the least index among the installed.
HighestPreference(installed) ==
    VETTED_OLLAMA_MODELS[CHOOSE k \in 1..Len(VETTED_OLLAMA_MODELS) :
        /\ VETTED_OLLAMA_MODELS[k] \in installed
        /\ \A j \in 1..(k - 1) : VETTED_OLLAMA_MODELS[j] \notin installed]

\* C10: a model the probe returns is in the vetted list; when the service
\* lists the installed models and the configured one is not among them, the
\* probe returns the vetted model of highest preference that is installed,
\* and raises when no vetted model is installed.
C10_VettedOnly ==
    vpc = "done" =>
        /\ vresult.status = "returned" => vresult.model \in Vetted
        /\ (vtags.kind = "models" /\ Configured(vision_env) \notin vtags.installed) =>
              IF Vetted \cap vtags.installed = {}
              THEN vresult.status = "raised"
              ELSE /\ vresult.status = "returned"
                   /\ vresult.model = HighestPreference(vtags.installed)

\* The configured model is vetted and not installed, two other vetted models
\* and an unvetted one are, and the probe returned another model.
C10_Witness ==
    /\ vpc = "done"
    /\ vision_env.set
    /\ vision_env.value \in Vetted
    /\ vtags.kind = "models"
    /\ vision_env.value \notin vtags.installed
    /\ Cardinality(Vetted \cap vtags.installed) >= 2
    /\ "bakllava:7b" \in vtags.installed
    /\ vresult.status = "returned"
    /\ vresult.model # vision_env.value

(***************************************************************************)
(* The claims about the vision analysis run.                               *)
(***************************************************************************)
\* C11: a run whose call of the Service Probe at its start could not reach
\* the service, or ran into its timeout, goes no further: it scans nothing,
\* analyses nothing and saves nothing.
C11_ProbeFailureFatal ==
    wprobe \in {"urlerror", "exception"} =>
        /\ wpc \notin {"scan", "analyze", "save", "count", "preview"}
        /\ wprocessed = 0

(***************************************************************************)
(* More claims about the Resumable Embedding Populator.                    *)
(***************************************************************************)
\* C12 as stated: while vec_image_descriptions does not exist, every
\* candidate whose embedding request succeeded (main has reached its insert)
\* has its relational row inserted with no error counted, the commit that
\* follows makes the row durable with no error counted, and the candidate is
\* then counted as processed; all this unless the process is terminated.
C12_EveryEmbeddedProcessed ==
    [][/\ (~vec_exists /\ qpc = "insert" /\ qpc' # "idle") =>
            /\ qpc' = "commit"
            /\ errors' = errors
            /\ EmbeddingsOf(ide_seen', descriptions[idx].id) # {}
       /\ (~vec_exists /\ qpc = "commit" /\ qpc' # "idle") =>
            /\ qpc' = "count"
            /\ errors' = errors
            /\ EmbeddingsOf(ide_durable', descriptions[idx].id) # {}
       /\ (~vec_exists /\ qpc = "count" /\ qpc' # "idle") =>
            /\ processed' = processed + 1
            /\ errors' = errors
            /\ qpc' = "embed"]_vars

\* C12 as amended: while vec_image_descriptions does not exist, the mirrored
\* insert of a candidate whose relational row was inserted (neither the
\* packing of the vector nor the relational INSERT raised) counts no error and
\* leaves the row in place; the commit that follows, unless it raises itself,
\* makes the row durable and counts no error; and the candidate is then
\* counted as processed.  A candidate whose relational INSERT or commit raises
\* is counted as an error.  All this unless the process is terminated.
C12_SchemaAbsenceNotAnError ==
    [][/\ (~vec_exists /\ qpc = "insert" /\ ide_seen' # ide_seen /\ qpc' # "idle") =>
            /\ qpc' = "commit"
            /\ errors' = errors
            /\ vec_seen' = vec_seen
            /\ EmbeddingsOf(ide_seen', descriptions[idx].id) # {}
       /\ (~vec_exists /\ qpc = "insert" /\ ide_seen' = ide_seen /\ qpc' # "idle") =>
            /\ qpc' = "embed"
            /\ errors' = errors + 1
       /\ (~vec_exists /\ qpc = "commit" /\ ide_durable' # ide_durable /\ qpc' # "idle") =>
            /\ qpc' = "count"
            /\ errors' = errors
            /\ EmbeddingsOf(ide_durable', descriptions[idx].id) # {}
       /\ (~vec_exists /\ qpc = "commit" /\ ide_durable' = ide_durable /\ qpc' # "idle") =>
            /\ qpc' = "embed"
            /\ errors' = errors + 1
       /\ (~vec_exists /\ qpc = "count" /\ qpc' # "idle") =>
            /\ processed' = processed + 1
            /\ errors' = errors
            /\ qpc' = "embed"
            /\ EmbeddingsOf(ide_durable, descriptions[idx].id) # {}]_vars

\* A run without vec_image_descriptions went through two candidates or more
\* and processed each: their rows are committed, the index has none.
C12_Witness ==
    /\ ~vec_exists
    /\ prev_run.outcome = "completed"
    /\ prev_run.processed >= 2
    /\ prev_run.errors = 0
    /\ Cardinality(ide_durable) >= 2
    /\ vec_durable = {}

\* C14: with batch size 0 the run selects every pending row, however many
\* there are; with a batch size n > 0 it selects n rows at most.
C14_AllPendingSentinel ==
    sel_pc = "selected" =>
        /\ sel_batch = 0 => sel_count = sel_pending
        /\ sel_batch > 0 => sel_count <= sel_batch

(***************************************************************************)
(* More claims about the Index Pruner.                                     *)
(***************************************************************************)
\* C13: when the resolve loop is over, the set of row addresses it has
\* accumulated is the set one lookup of all the junk ids would return, and the
\* list made of it holds each address once; and whatever the batch size, the
\* loop over the junk list, taken from its start, returns what the single
\* lookup returns.
C13_LosslessBatching ==
    /\ ((ppc = "resolve" /\ bi >= Len(junk_list)) \/ ppc \in {"delete", "verify", "done"}) =>
          rowids_to_delete = SelectRowids(store0, Ascending(junk_message_ids))
    /\ ppc = "delete" =>
          /\ SeqToSet(rowid_list) = rowids_to_delete
          /\ Len(rowid_list) = Cardinality(rowids_to_delete)
    /\ (ppc = "resolve" /\ bi = 0) =>
          \A bs \in 1..(NMsg + 1) :
              ResolveFrom(working, junk_list, 0, bs, {}) = SelectRowids(working, junk_list)

\* The resolve loop is over on a list of several ids, which batch sizes 1 and
\* 2 cut into more than one batch; the first and the last id of the list own
\* row addresses, and one id owns two.
C13_Witness ==
    /\ ppc = "resolve"
    /\ bi >= Len(junk_list)
    /\ Len(junk_list) > 2
    /\ rowids_to_delete = ResolveFrom(working, junk_list, 0, 2, {})
    /\ SelectRowids(working, <<junk_list[1]>>) # {}
    /\ SelectRowids(working, <<junk_list[Len(junk_list)]>>) # {}
    /\ \E k \in 1..Len(junk_list) : Cardinality(SelectRowids(working, <<junk_list[k]>>)) >= 2

\* C15: the delete loop is entered only with a row address to delete; a run
\* that is done with none resolved, in either mode, has changed no shadow
\* table, opened no transaction and reports zero removed and all remaining.
C15_NothingToPrune ==
    /\ ppc \in {"delete", "verify"} => rowids_to_delete # {}
    /\ (ppc = "done" /\ rowids_to_delete = {}) =>
          /\ durable = store0
          /\ working = store0
          /\ ~in_txn
          /\ report.removed = 0
          /\ report.remaining = total_before
          /\ report.remaining = Cardinality(store0["vec_messages_rowids"])

\* An execute run is done on a store that holds rows: ids were matched and
\* none of them resolved to a row address.
C15_Witness ==
    /\ execute
    /\ ppc = "done"
    /\ junk_message_ids # {}
    /\ rowids_to_delete = {}
    /\ store0[ID_TABLE] # {}
    /\ report.remaining > 0

\* Every row address of the store is in all nine shadow tables or in none.
AllOrNone(store) ==
    \A t \in TableNames : RowidsIn(store[t]) = RowidsIn(store[ID_TABLE])

\* C20: on a store whose row addresses are each in all shadow tables or in
\* none, a run that is done reports as removed the number of noise row
\* addresses and as remaining the live count of the registry without them,
\* whether it deleted or previewed; and after a run that deleted, the live
\* count of the registry is the count before less that number.
C20_DeltaMatchesPreview ==
    (ppc = "done" /\ AllOrNone(store0)) =>
        LET R == NoiseRowids(store0, messages) IN
            /\ report.removed = Cardinality(R)
            /\ report.remaining = Cardinality(Without(store0, R)["vec_messages_rowids"])
            /\ report.kind = "executed" =>
                  /\ Cardinality(rowids_to_delete) = Cardinality(R)
                  /\ Cardinality(durable["vec_messages_rowids"])
                        = total_before - Cardinality(rowids_to_delete)
                  /\ report.remaining = Cardinality(durable["vec_messages_rowids"])

\* An execute run is done on such a store: it removed two row addresses and
\* left one or more.
C20_Witness ==
    /\ AllOrNone(store0)
    /\ ppc = "done"
    /\ report.kind = "executed"
    /\ report.removed >= 2
    /\ report.remaining >= 1
    /\ total_before = report.removed + report.remaining

(***************************************************************************)
(* The claims about what the Populator leaves in its tables.               *)
(***************************************************************************)
\* C17: in the loop, the candidates gone through that have a committed
\* embedding row are as many as the processed count: a candidate counted as
\* an error has none.
C17_ErrorsSkipped ==
    qpc = "embed" =>
        Cardinality({k \in 1..(idx - 1) :
                        EmbeddingsOf(ide_durable, descriptions[k].id) # {}}) = processed

\* C18: in a run with vec_image_descriptions in place, every committed
\* embedding row of a selected candidate has its committed index row, of the
\* same id and record, and every committed index row has its embedding row.
C18_MirroredTogether ==
    (qpc # "idle" /\ vec_exists) =>
        \A k \in 1..Len(descriptions) :
            /\ \A row \in EmbeddingsOf(ide_durable, descriptions[k].id) :
                  \E v \in vec_durable :
                      v.id = row.id /\ v.image_analysis_id = row.image_analysis_id
            /\ \A v \in EmbeddingsOf(vec_durable, descriptions[k].id) :
                  \E row \in ide_durable :
                      v.id = row.id /\ v.image_analysis_id = row.image_analysis_id

\* C19: the insert is reached only with a vector of EMBEDDING_DIM floats, and
\* every row written, committed or not, holds 4 bytes for each of the
\* dimensions it records, which are EMBEDDING_DIM.
C19_StoredDimension ==
    /\ qpc \in {"insert", "commit", "count"} => errors + processed = idx - 1
    /\ qpc = "insert" => embedding = EMBEDDING_DIM
    /\ \A row \in ide_durable \cup ide_seen :
          /\ row.dimensions = EMBEDDING_DIM
          /\ row.nbytes = 4 * row.dimensions
    /\ \A v \in vec_durable \cup vec_seen : v.nbytes = 4 * EMBEDDING_DIM

\* The second candidate of a run came back with a vector of another length
\* and was counted as an error; the first is stored and the loop goes on.
C19_Witness ==
    /\ qpc = "embed"
    /\ idx = 3
    /\ Len(descriptions) >= 3
    /\ embedding \notin {0, EMBEDDING_DIM}
    /\ errors = 1
    /\ processed = 1
    /\ EmbeddingsOf(ide_durable, descriptions[1].id) # {}
    /\ EmbeddingsOf(ide_seen, descriptions[2].id) = {}

(***************************************************************************)
(* The claim about the Blob Codec.                                         *)
(***************************************************************************)
\* |x - y| is within the tolerance of a 32-bit float: 2^-24 of |x|, or 2^-150
\* (half the smallest 32-bit float) where x is smaller than the normal range.
Close(x, y) ==
    IF ~IsFinite(y) THEN FALSE
    ELSE IF x.m = 0 THEN y.m = 0
    ELSE IF y.m = 0 THEN x.e + BitLen(x.m) <= -150
    ELSE LET c  == IF x.e < y.e THEN x.e ELSE y.e
             dx == x.e - c
             dy == y.e - c
         IN  /\ x.neg = y.neg
             /\ BitLen(x.m) + dx <= 30
             /\ BitLen(y.m) + dy <= 30
             /\ LET X == x.m * Pow2(dx)
                    Y == y.m * Pow2(dy)
                    d == IF X > Y THEN X - Y ELSE Y - X
                IN  \/ d <= X \div Pow2(24)
                    \/ -150 - c > 30
                    \/ (-150 - c >= 0 /\ d <= Pow2(-150 - c))

\* |x| is not above the largest 32-bit float, (2^24 - 1) * 2^104.
InFloat32Range(x) ==
    \/ x.m = 0
    \/ x.e + BitLen(x.m) - 1 < 127
    \/ /\ x.e + BitLen(x.m) - 1 = 127
       /\ IF BitLen(x.m) <= 24 THEN TRUE
          ELSE x.m <= (Pow2(24) - 1) * Pow2(BitLen(x.m) - 24)

\* The vector was encoded into 4 bytes a float and read back as it was, within
\* the tolerance.
RoundTrips ==
    /\ cod_pc \in {"encoded", "decoded"} =>
          Len(cod_blob) = 4 * Len(cod_vector)
    /\ cod_pc = "decoded" =>
          /\ Len(cod_decoded) = Len(cod_vector)
          /\ \A k \in 1..Len(cod_vector) : Close(cod_vector[k], cod_decoded[k])

\* C16 as stated: any vector of floats is encoded into 4 bytes a float and is
\* read back as it was, within the tolerance.
C16_AnyVectorRoundTrips == RoundTrips

\* C16 as amended: a vector whose floats are all within the range of the
\* 32-bit floats is encoded into 4 bytes a float and read back as it was,
\* within the tolerance.
C16_RoundTripInRange ==
    (\A k \in 1..Len(cod_vector) : InFloat32Range(cod_vector[k])) => RoundTrips

\* A vector of two floats was decoded: 0.1, which the encoding rounded to
\* another number, and a negative float.
C16_Witness ==
    /\ cod_pc = "decoded"
    /\ Len(cod_vector) = 2
    /\ cod_vector[1] = Flt(FALSE, 53687091, -29)
    /\ cod_decoded[1] = Flt(FALSE, 13421773, -27)
    /\ cod_vector[2].neg
    /\ cod_decoded[2].neg
    /\ Len(cod_blob) = 8

(***************************************************************************)
(* The frame of the Index Pruner.                                          *)
(***************************************************************************)
\* The rows of a store whose row address is outside the given set.
RowsOutside(store, rowids) == [t \in TableNames |-> {row \in store[t] : row[1] \notin rowids}]

\* C21: from the delete loop on, in every shadow table the rows whose row
\* address is not in the resolved set are the rows the run found there, as
\* the connection sees them and as committed; before the delete loop, and in
\* a preview to its end, the store is as the run found it; and no step of
\* either mode changes the messages table.
C21_OnlyResolvedRemoved ==
    /\ [](/\ ppc \in {"delete", "verify", "done"} =>
                /\ RowsOutside(working, rowids_to_delete) = RowsOutside(store0, rowids_to_delete)
                /\ RowsOutside(durable, rowids_to_delete) = RowsOutside(store0, rowids_to_delete)
          /\ (ppc \in {"start", "classify", "resolve"} \/ (ppc = "done" /\ ~execute)) =>
                /\ working = store0
                /\ durable = store0)
    /\ [][messages' = messages]_vars

\* An execute run is done: it removed rows, and rows of unresolved addresses
\* are left, one of them in the text tables only.
C21_Witness ==
    /\ ppc = "done"
    /\ report.kind = "executed"
    /\ working # store0
    /\ \E r \in RowIds \ rowids_to_delete :
          /\ r \in RowidsIn(working[ID_TABLE])
          /\ r \notin RowidsIn(working["vec_messages_rowids"])
    /\ \E r \in RowIds \ rowids_to_delete : r \in RowidsIn(working["vec_messages_rowids"])

(***************************************************************************)
(* The Populator run again and again.                                      *)
(***************************************************************************)
\* The row is pending and the service answers its description with a vector
\* of the expected length.
Embeddable(id) ==
    /\ IsCandidate(rr_ia, rr_ide, id)
    /\ ~EmbedRaises(rr_answer[id])
    /\ ~DimensionRaises(rr_answer[id].len)

\* C22: under runs repeated with one positive batch size, a pending row whose
\* embedding request succeeds is embedded in the end, whatever rows fail
\* each time.
C22_NoStarvation ==
    \A id \in IaIds : [](Embeddable(id) => <>(EmbeddingsOf(rr_ide, id) # {}))

(***************************************************************************)
(* The vision analysis tool over its runs.                                 *)
(***************************************************************************)
\* The images the store holds an analysis of.
AnalyzedPaths == get_analyzed_paths(analysis_rows)

\* The images of a run's list that the run has still to send to the vision
\* service: those after the image at hand, and the image at hand until it is
\* sent.
StillToSend ==
    {unanalyzed[k] : k \in {j \in 1..Len(unanalyzed) : j > wi \/ (j = wi /\ wpc = "analyze")}}

\* No image with a saved analysis is in what a run has still to send to the
\* vision service, whether the run has counted the image it saved last or
\* not, and no image is twice in a run's list.
NeverAgain ==
    wpc \in {"analyze", "save", "count", "preview"} =>
        /\ StillToSend \cap AnalyzedPaths = {}
        /\ Cardinality(SeqToSet(unanalyzed)) = Len(unanalyzed)

\* A step in which the analysis or the save of an image fails (the except
\* clause counts an error for an image that is being analysed or saved)
\* leaves the store as it was, without an analysis of the image at hand, and
\* the image among the failed ones; a step that writes to the store writes
\* the analysis of the image at hand and counts no error; and no step takes
\* an analysis away.
FailureKeepsStore ==
    /\ (wpc \in {"analyze", "save"} /\ werrors' = werrors + 1) =>
          /\ analysis_rows' = analysis_rows
          /\ unanalyzed[wi] \notin AnalyzedPaths
          /\ unanalyzed[wi] \in wfailed'
    /\ analysis_rows' # analysis_rows =>
          /\ werrors' = werrors
          /\ get_analyzed_paths(analysis_rows') = AnalyzedPaths \cup {unanalyzed[wi]}
    /\ AnalyzedPaths \subseteq get_analyzed_paths(analysis_rows')

\* How many images without an analysis the walk meets up to image p.
WalkRank(p) == Cardinality({q \in ImagePaths \ AnalyzedPaths : q <= p})

\* C23 as stated: an image with a saved analysis is not selected or sent
\* again; a failure of the analysis or the save leaves the image without an
\* analysis; and, while runs go on being started and going through their
\* images to the end, an image whose analysis or save failed in a run that is
\* over is selected by some later run.
C23_FailedSelectedAgain ==
    /\ [](NeverAgain /\ wfailed \cap AnalyzedPaths = {})
    /\ [][FailureKeepsStore]_vars
    /\ \A p \in ImagePaths :
          []<><<VmFinish>>_vars =>
              []((wpc = "idle" /\ p \in wfailed) => <>(p \in SeqToSet(unanalyzed)))

\* C23 as amended: an image with a saved analysis is not selected or sent
\* again; a failure of the analysis or the save leaves the image without an
\* analysis; and a later run that gets to its scan selects an image whose
\* analysis or save failed exactly when its max_images is 0 or is larger than
\* the number of images without an analysis that come before the image in
\* the walk.
C23_FailedSelectedWithinWindow ==
    /\ [](NeverAgain /\ wfailed \cap AnalyzedPaths = {})
    /\ [][/\ FailureKeepsStore
          /\ (wpc = "scan" /\ wpc' = "analyze") =>
                \A p \in wfailed :
                    /\ (max_images = 0 \/ WalkRank(p) <= max_images) => p \in SeqToSet(unanalyzed')
                    /\ (max_images > 0 /\ WalkRank(p) > max_images) => p \notin SeqToSet(unanalyzed')]_vars

\* A later run has selected its images: an image saved by a run before is
\* not among them, an image that failed is, and another that failed is left
\* out by max_images.
C23_Witness ==
    /\ wprev.outcome = "completed"
    /\ wpc = "analyze"
    /\ wi = 1
    /\ max_images = 1
    /\ AnalyzedPaths # {}
    /\ AnalyzedPaths \cap SeqToSet(unanalyzed) = {}
    /\ wfailed \cap SeqToSet(unanalyzed) # {}
    /\ wfailed \ SeqToSet(unanalyzed) # {}

(***************************************************************************)
(* The parse of the vision service's response.                             *)
(***************************************************************************)
\* The samples that are the object the prompt asks for, bare, between white
\* space or in a fenced block.
GoodResponses == {"object", "padded", "fenced_json", "fenced", "fence_open", "fence_trailer"}

\* C24: for a response text that is not a well-formed JSON object with the
\* expected fields, once an optional fenced block is stripped, the parse does
\* not raise and returns the fallback record: scene "unknown", mood
\* "neutral", no categories, no objects, and as description the raw text cut
\* at 500 characters.
C24_FallbackOnAnyBadText ==
    (par_pc = "parsed" /\ par_text.name \notin GoodResponses) =>
        /\ ~par_result.raised
        /\ par_result.record.scene = "unknown"
        /\ par_result.record.mood = "neutral"
        /\ par_result.record.categories = "[]"
        /\ par_result.record.objects = "[]"
        /\ par_result.record.description = "raw"
        /\ par_result.record.description_chars = Min(par_text.chars, DESCRIPTION_LIMIT)
====
